---- MODULE Spec2Model ----
(***************************************************************************)
(* Verification model of manuscript-markdown's conversion core:            *)
(*   - the citation subsystem of the markdown -> docx export               *)
(*     (buildCitationFieldCode / generateCitation and the itemIdMap),      *)
(*   - the OMML -> LaTeX translator (ommlToLatex and its handlers),        *)
(*   - the docx -> markdown walker (walk in extractDocumentContent) and    *)
(*     the markdown builder (buildMarkdown).                               *)
(* Each subsystem has its own specification; a specification leaves the    *)
(* variables of the other subsystems at their idle value.                  *)
(***************************************************************************)
EXTENDS Integers, Sequences, FiniteSets, TLC

VARIABLES
    \* ---- citation export (md -> docx), one slot per conversion call
    status,      \* call -> "idle" | "running" | "done"
    itemIdMap,   \* call -> the call's itemIdMap (citation key -> id)
    warnings,    \* call -> list of warnings returned with the result
    out,         \* call -> rendered citation groups, in document order
    hist,        \* call -> the citation groups the call has been given
    \* ---- OMML -> LaTeX translation of one math subtree
    mathIn,      \* the children of an m:oMath element handed to ommlToLatex
    mathOut,     \* the LaTeX ommlToLatex returned for mathIn
    mathSteps,   \* how many nodes the subtree was built from
    \* ---- docx -> markdown: walk() of extractDocumentContent, buildMarkdown
    wdoc,        \* the document nodes walk() has visited, in document order
    emitted,     \* for each visited node, the content items it pushed
    content,     \* the content array
    wstatus,     \* "walking" | "done" | "failed" (a fault left walk())
    markdown,    \* the chunks buildMarkdown pushed to its output
    \* ---- extract_citations.js: extractZoteroCitations on one document.xml
    documentXml, \* the text of word/document.xml, as tokens
    lastIndex,   \* pattern.lastIndex: the token the next exec starts at
    citations,   \* the citations array
    consoleLog,  \* what was written with console.error
    xstatus,     \* "reading" | "scanning" | "returned"
    \* ---- md -> docx: generateRPr on one run
    rprRun,      \* the run handed to the last call of generateRPr (<<>> before any)
    rprOut,      \* the XML that call returned, as tokens
    \* ---- md -> docx: convertMdToDocx over the tokens of one document
    gstate,      \* the conversion state object (hasList)
    gbody,       \* the tokens rendered so far, each with its XML
    gzip,        \* the names of the parts in the package ({} before it is built)
    contentTypes, \* the part names listed in [Content_Types].xml
    gstatus,     \* "converting" | "packaged"
    \* ---- LruCache (citekey-language.ts)
    lruMax,      \* maxSize of the cache (0 before it is constructed)
    lru,         \* the entries of the cache, least recently used first
    lruInserted, \* the distinct keys set so far
    lruGot,      \* what the last get returned
    lruUses,     \* every key used so far with its last use ("set" | "get"), oldest use first
    \* ---- createDebouncer (lsp debounce, part_006)
    ddelay,      \* delayMs of the debouncer (0 before it is created)
    dnow,        \* the time, in ms
    timers,      \* the timers map: key -> the timeout handle stored for it (<<>> if none)
    timeouts,    \* the armed timeouts of the runtime: handle, key, due time
    dlog,        \* every schedule call, callback execution and clear, in order
    \* ---- createSelectionAwareDebouncer (wordcount.property.test.ts)
    selDelay,    \* delayMs of the selection-aware debouncer (0 before it is created)
    selNow,      \* the time, in ms
    selTimer,    \* timer: the pending timeout handle (<<>> if undefined)
    selTimeouts, \* the armed timeouts of the runtime: handle, key, due time
    callCount,   \* callCount: the word-count updates run
    selLog,      \* every selection change, update and reset, in order
    \* ---- bib reverse map (lsp/bib-reverse-map.test.ts)
    bibReverseMap, \* canonical .bib path -> the set of document URIs using it (keys: its DOMAIN)
    latestCall,  \* document URI -> the last call made for it (<<>> if none)
    \* ---- code regions (computeCodeRegions)
    ctext,       \* the text handed to computeCodeRegions, one character per element
    clines,      \* the lines ctext was put together from
    cregions,    \* the regions computeCodeRegions returned
    cstatus,     \* "editing" | "computed"
    \* ---- output base path (output-conflicts.ts)
    opath,       \* the path handed to getOutputBasePath, one character per element
    once,        \* getOutputBasePath(path)
    twice,       \* getOutputBasePath(once)
    ostatus,     \* "choosing" | "called"
    \* ---- csl frontmatter helpers (part_006)
    ftext,       \* the document text, one character per element
    flines,      \* the lines ftext was put together from
    feol,        \* the line ending of the document: <<"\n">> or <<"\r", "\n">>
    cslOffset,   \* the offset handed to getCslCompletionContext
    cslContext,  \* what getCslCompletionContext returned (<<>> for undefined)
    cslInfo,     \* what getCslFieldInfo returned (<<>> for undefined)
    fstatus      \* "editing" | "context" | "info"

citVars == <<status, itemIdMap, warnings, out, hist>>

mathVars == <<mathIn, mathOut, mathSteps>>

walkVars == <<wdoc, emitted, content, wstatus, markdown>>

extractVars == <<documentXml, lastIndex, citations, consoleLog, xstatus>>

rprVars == <<rprRun, rprOut>>

genVars == <<gstate, gbody, gzip, contentTypes, gstatus>>

lruVars == <<lruMax, lru, lruInserted, lruGot, lruUses>>

debVars == <<ddelay, dnow, timers, timeouts, dlog>>

selVars == <<selDelay, selNow, selTimer, selTimeouts, callCount, selLog>>

bibVars == <<bibReverseMap, latestCall>>

codeVars == <<ctext, clines, cregions, cstatus>>

outVars == <<opath, once, twice, ostatus>>

cslVars == <<ftext, flines, feol, cslOffset, cslContext, cslInfo, fstatus>>

vars == <<status, itemIdMap, warnings, out, hist, mathIn, mathOut, mathSteps,
          wdoc, emitted, content, wstatus, markdown,
          documentXml, lastIndex, citations, consoleLog, xstatus,
          rprRun, rprOut,
          gstate, gbody, gzip, contentTypes, gstatus,
          lruMax, lru, lruInserted, lruGot, lruUses,
          ddelay, dnow, timers, timeouts, dlog,
          selDelay, selNow, selTimer, selTimeouts, callCount, selLog,
          bibReverseMap, latestCall,
          ctext, clines, cregions, cstatus,
          opath, once, twice, ostatus,
          ftext, flines, feol, cslOffset, cslContext, cslInfo, fstatus>>

\* what the actions of one subsystem leave alone
notCit == <<mathVars, walkVars, extractVars, rprVars, genVars, lruVars, debVars, selVars, bibVars, codeVars, outVars, cslVars>>
notMath == <<citVars, walkVars, extractVars, rprVars, genVars, lruVars, debVars, selVars, bibVars, codeVars, outVars, cslVars>>
notWalk == <<citVars, mathVars, extractVars, rprVars, genVars, lruVars, debVars, selVars, bibVars, codeVars, outVars, cslVars>>
notExtract == <<citVars, mathVars, walkVars, rprVars, genVars, lruVars, debVars, selVars, bibVars, codeVars, outVars, cslVars>>
notRPr == <<citVars, mathVars, walkVars, extractVars, genVars, lruVars, debVars, selVars, bibVars, codeVars, outVars, cslVars>>
notGen == <<citVars, mathVars, walkVars, extractVars, rprVars, lruVars, debVars, selVars, bibVars, codeVars, outVars, cslVars>>
notLru == <<citVars, mathVars, walkVars, extractVars, rprVars, genVars, debVars, selVars, bibVars, codeVars, outVars, cslVars>>
notDeb == <<citVars, mathVars, walkVars, extractVars, rprVars, genVars, lruVars, selVars, bibVars, codeVars, outVars, cslVars>>
notSel == <<citVars, mathVars, walkVars, extractVars, rprVars, genVars, lruVars, debVars, bibVars, codeVars, outVars, cslVars>>
notBib == <<citVars, mathVars, walkVars, extractVars, rprVars, genVars, lruVars, debVars, selVars, codeVars, outVars, cslVars>>
notCode == <<citVars, mathVars, walkVars, extractVars, rprVars, genVars, lruVars, debVars, selVars, bibVars, outVars, cslVars>>
notOut == <<citVars, mathVars, walkVars, extractVars, rprVars, genVars, lruVars, debVars, selVars, bibVars, codeVars, cslVars>>
notCsl == <<citVars, mathVars, walkVars, extractVars, rprVars, genVars, lruVars, debVars, selVars, bibVars, codeVars, outVars>>

(***************************************************************************)
(* Small helpers                                                           *)
(***************************************************************************)

\* JavaScript's undefined for an optional field
Undefined == "undefined"

RECURSIVE SelectKeys(_, _)
\* the elements of seq s whose key satisfies membership in set S, in order
SelectKeys(s, S) ==
    IF s = <<>> THEN <<>>
    ELSE IF Head(s).key \in S
         THEN <<Head(s)>> \o SelectKeys(Tail(s), S)
         ELSE SelectKeys(Tail(s), S)

Range(s) == {s[i] : i \in 1..Len(s)}

(***************************************************************************)
(* Citation subsystem                                                      *)
(***************************************************************************)

\* citation groups one conversion call renders
MaxGroups == 2

\* the conversion calls that may be in flight together
Calls == {1, 2}

\* The bibliography store of the export: BibtexEntry records by citation key.
\* smith2020 and doe2021 come from a plain .bib file, jones2022 carries both
\* Zotero fields, lee2019 only zotero-uri; ghost1999 is cited but has no entry.
Bib ==
    ("smith2020" :> [key |-> "smith2020", zoteroKey |-> Undefined,
                     zoteroUri |-> Undefined]) @@
    ("doe2021"   :> [key |-> "doe2021", zoteroKey |-> Undefined,
                     zoteroUri |-> Undefined]) @@
    ("jones2022" :> [key |-> "jones2022", zoteroKey |-> "XXXX1234",
                     zoteroUri |-> "http://zotero.org/users/0/items/XXXX1234"]) @@
    ("lee2019"   :> [key |-> "lee2019", zoteroKey |-> Undefined,
                     zoteroUri |-> "http://zotero.org/groups/7/items/ABCD5678"])

CitedKeys == DOMAIN Bib \cup {"ghost1999"}

\* one cited item of a group as the markdown parser hands it over
Cite(k, loc) == [key |-> k, locator |-> loc]

\* The citation groups a document may contain ([@a; @b, p. 20] ...).
Groups ==
    { <<Cite("smith2020", Undefined)>>,
      <<Cite("doe2021", Undefined), Cite("jones2022", "20")>>,
      <<Cite("lee2019", Undefined), Cite("smith2020", "5")>>,
      <<Cite("ghost1999", Undefined)>>,
      <<Cite("lee2019", "3"), Cite("ghost1999", Undefined),
        Cite("jones2022", Undefined)>> }

\* ids are numbers (Zotero-linked entries) or strings (the citation key)
NumId(n) == [type |-> "number", num |-> n]
StrId(s) == [type |-> "string", str |-> s]
\* what itemIdMap.get returns for a key it does not hold
NoId == [type |-> "undefined"]

\* the id buildCitationFieldCode had before the fix: itemIdMap.size + 1 for all
NewIdSequential(entry, map) == NumId(Cardinality(DOMAIN map) + 1)

\* numeric ids counted from the string ids in the map instead of its size
NewIdCountsStrings(entry, map) ==
    IF entry.zoteroUri # Undefined
    THEN NumId(Cardinality({k \in DOMAIN map : map[k].type = "string"}) + 1)
    ELSE StrId(entry.key)

\* the id given to a key that is not in itemIdMap yet
NewId(entry, map) ==
    IF entry.zoteroUri # Undefined
    THEN NumId(Cardinality(DOMAIN map) + 1)
    ELSE StrId(entry.key)

\* a lookup that never finds the key
LookupIdNever(key, map) == NoId

\* itemIdMap.get(key)
LookupId(key, map) ==
    IF key \in DOMAIN map THEN map[key] ELSE NoId

\* the synthetic, non-resolvable URI of a non-Zotero entry
SyntheticUri(key) == "http://zotero.org/users/local/embedded/items/" \o key

\* uris only for Zotero-linked entries, as before the synthetic-uris change
UrisZoteroOnly(entry) ==
    IF entry.zoteroUri # Undefined THEN <<entry.zoteroUri>> ELSE <<>>

\* the uris array of a citationItem
Uris(entry) ==
    IF entry.zoteroUri # Undefined
    THEN <<entry.zoteroUri>>
    ELSE <<SyntheticUri(entry.key)>>

\* one citationItem of the CSL_CITATION payload
CitationItem(cite, entry, id) ==
    [key |-> cite.key, id |-> id, itemData |-> [id |-> id],
     uris |-> Uris(entry), locator |-> cite.locator]

RECURSIVE BuildCitationFieldCode(_, _, _)
\* buildCitationFieldCode(keys, entries, ..., itemIdMap): the citationItems
\* of the field code and the itemIdMap afterwards
BuildCitationFieldCode(cites, entries, map) ==
    IF cites = <<>> THEN [items |-> <<>>, map |-> map]
    ELSE LET cite  == Head(cites)
             entry == entries[cite.key]
             found == LookupId(cite.key, map)
             id    == IF found = NoId THEN NewId(entry, map) ELSE found
             map2  == IF found = NoId THEN (cite.key :> id) @@ map ELSE map
             rest  == BuildCitationFieldCode(Tail(cites), entries, map2)
         IN [items |-> <<CitationItem(cite, entry, id)>> \o rest.items,
             map |-> rest.map]

\* the warning collected for a citation key without a bibliography entry
MissingKeyWarning(key) == [type |-> "citation-key-not-found", key |-> key]

RECURSIVE WarningsFor(_)
WarningsFor(cites) ==
    IF cites = <<>> THEN <<>>
    ELSE <<MissingKeyWarning(Head(cites).key)>> \o WarningsFor(Tail(cites))

\* a group with a missing key is dropped as a whole
GenerateCitationAllOrNothing(group, entries, map) ==
    LET missing  == SelectKeys(group, CitedKeys \ DOMAIN entries)
        built    == BuildCitationFieldCode(group, entries, map)
    IN IF missing = <<>>
       THEN [rendered |-> [fieldCode |-> built.items, plain |-> <<>>],
             map |-> built.map, warnings |-> <<>>]
       ELSE [rendered |-> [fieldCode |-> <<>>, plain |-> <<>>],
             map |-> map, warnings |-> <<>>]

\* generateCitation: one citation group -> one field code with every resolved
\* entry, the missing keys as plain text, one warning per missing key
GenerateCitation(group, entries, map) ==
    LET resolved == SelectKeys(group, DOMAIN entries)
        missing  == SelectKeys(group, CitedKeys \ DOMAIN entries)
        built    == BuildCitationFieldCode(resolved, entries, map)
    IN [rendered |-> [fieldCode |-> built.items,
                      plain |-> [i \in 1..Len(missing) |-> "@" \o missing[i].key]],
        map |-> built.map,
        warnings |-> WarningsFor(missing)]

\* every call would use one process-wide map
MapSlotShared(c) == 1

\* the itemIdMap a conversion call threads through its generateCitation calls
MapSlot(c) == c

\* convertMdToDocx starts: fresh itemIdMap, no warnings, nothing rendered
StartExport(c) ==
    /\ status[c] = "idle"
    /\ status' = [status EXCEPT ![c] = "running"]
    /\ itemIdMap' = [itemIdMap EXCEPT ![MapSlot(c)] = <<>>]
    /\ warnings' = [warnings EXCEPT ![c] = <<>>]
    /\ out' = [out EXCEPT ![c] = <<>>]
    /\ hist' = [hist EXCEPT ![c] = <<>>]
    /\ UNCHANGED notCit

\* the call renders its next citation group
RenderGroup(c, group) ==
    /\ status[c] = "running"
    /\ Len(hist[c]) < MaxGroups
    /\ LET r == GenerateCitation(group, Bib, itemIdMap[MapSlot(c)])
       IN /\ itemIdMap' = [itemIdMap EXCEPT ![MapSlot(c)] = r.map]
          /\ warnings' = [warnings EXCEPT ![c] = @ \o r.warnings]
          /\ out' = [out EXCEPT ![c] = Append(@, r.rendered)]
    /\ hist' = [hist EXCEPT ![c] = Append(@, group)]
    /\ UNCHANGED status
    /\ UNCHANGED notCit

\* the call returns its result together with its warnings
FinishExport(c) ==
    /\ status[c] = "running"
    /\ status' = [status EXCEPT ![c] = "done"]
    /\ UNCHANGED <<itemIdMap, warnings, out, hist>>
    /\ UNCHANGED notCit

CitInit ==
    /\ status = [c \in Calls |-> "idle"]
    /\ itemIdMap = [c \in Calls |-> <<>>]
    /\ warnings = [c \in Calls |-> <<>>]
    /\ out = [c \in Calls |-> <<>>]
    /\ hist = [c \in Calls |-> <<>>]

CitNext ==
    \/ \E c \in Calls : StartExport(c)
    \/ \E c \in Calls, g \in Groups : RenderGroup(c, g)
    \/ \E c \in Calls : FinishExport(c)

(***************************************************************************)
(* Claims about the citation subsystem                                     *)
(***************************************************************************)

\* the citationItems a call has rendered so far: g is the index of the
\* citation group, n the position inside the group's field code
ItemsOf(c) ==
    {[g |-> i, n |-> j, item |-> out[c][i].fieldCode[j]] :
        <<i, j>> \in {<<i, j>> \in (1..Len(out[c])) \X (1..Len(out[c])+2) :
                        j <= Len(out[c][i].fieldCode)}}

\* x is rendered before y in the document
Before(x, y) == x.g < y.g \/ (x.g = y.g /\ x.n < y.n)

\* the first occurrence of key x.item.key is rendered before the first
\* occurrence of key y.item.key
FirstAppearsBefore(c, x, y) ==
    \E fx \in ItemsOf(c) :
        /\ fx.item.key = x.item.key
        /\ \A fy \in ItemsOf(c) : fy.item.key = y.item.key => Before(fx, fy)

\* C29: within one export the numeric identifiers of provenanced keys strictly
\* increase in the order of the keys' first appearance, so two different
\* provenanced keys never share an identifier, whatever keys without
\* provenance are rendered before, between or after them.
C29_NumericIdsIncrease ==
    \A c \in Calls : \A x, y \in ItemsOf(c) :
        /\ x.item.id.type = "number" <=> Bib[x.item.key].zoteroUri # Undefined
        /\ (/\ x.item.id.type = "number" /\ y.item.id.type = "number"
            /\ x.item.key # y.item.key)
              => /\ x.item.id # y.item.id
                 /\ FirstAppearsBefore(c, x, y) => x.item.id.num < y.item.id.num

\* lee2019, then keys without provenance, then jones2022: the two numeric
\* identifiers are not consecutive
C29_Witness ==
    \E c \in Calls : \E x, y, z \in ItemsOf(c) :
        /\ x.item.key = "lee2019" /\ y.item.key = "jones2022"
        /\ z.item.id.type = "string"
        /\ Before(x, z) /\ Before(z, y)
        /\ x.item.id.num + 1 < y.item.id.num

\* C1: within one export every occurrence of a citation key carries the
\* identifier its first occurrence got, with or without provenance and
\* whatever was rendered in between.
C1_StableIdentifier ==
    \A c \in Calls : \A x, y \in ItemsOf(c) :
        x.item.key = y.item.key => x.item.id = y.item.id

\* a Zotero-linked key and a plain key have each been rendered twice in one
\* export, with another key rendered between the two occurrences
C1_Witness ==
    \E c \in Calls : \E x, y, z, u, v \in ItemsOf(c) :
        /\ Before(x, z) /\ Before(z, y)
        /\ x.item.key = y.item.key /\ z.item.key # x.item.key
        /\ x.item.id.type = "number"
        /\ Before(u, v) /\ u.item.key = v.item.key
        /\ u.item.id.type = "string"

C3_UrisCarried ==
    \A c \in Calls : \A x \in ItemsOf(c) :
        LET e == Bib[x.item.key]
            synthetic ==
                "http://zotero.org/users/local/embedded/items/" \o x.item.key
        IN /\ Len(x.item.uris) = 1
           /\ e.zoteroUri # Undefined =>
                 x.item.uris[1] = e.zoteroUri /\ x.item.uris[1] # synthetic
           /\ e.zoteroUri = Undefined => x.item.uris[1] = synthetic

\* one field code holds a Zotero-linked item and a plain item
C3_Witness ==
    \E c \in Calls : \E x, y \in ItemsOf(c) :
        /\ x.g = y.g
        /\ Bib[x.item.key].zoteroUri # Undefined
        /\ Bib[y.item.key].zoteroUri = Undefined

\* the cited keys of group i of call c that have / have no bibliography entry
ResolvedIn(c, i) == {hist[c][i][j].key : j \in 1..Len(hist[c][i])} \cap DOMAIN Bib
MissingIn(c, i) == {hist[c][i][j].key : j \in 1..Len(hist[c][i])} \ DOMAIN Bib

\* C4: a key absent from the bibliography never appears in a field code; it
\* is rendered as plain text and a warning is collected for it, while the
\* other keys of its group and every later group are still converted.
C4_MissingKeyPlainText ==
    \A c \in Calls :
        /\ Len(out[c]) = Len(hist[c])
        /\ \A i \in 1..Len(hist[c]) :
              /\ {x.item.key : x \in {y \in ItemsOf(c) : y.g = i}}
                    = ResolvedIn(c, i)
              /\ \A k \in MissingIn(c, i) :
                    /\ \E j \in 1..Len(out[c][i].plain) :
                          out[c][i].plain[j] = "@" \o k
                    /\ \E j \in 1..Len(warnings[c]) : warnings[c][j].key = k
        /\ \A j \in 1..Len(warnings[c]) : warnings[c][j].key \notin DOMAIN Bib

\* a group with a missing key and a resolved key was rendered, and a later
\* group of the same export was rendered as a field code after it
C4_Witness ==
    \E c \in Calls : \E i, j \in 1..Len(hist[c]) :
        /\ i < j
        /\ MissingIn(c, i) # {} /\ ResolvedIn(c, i) # {}
        /\ Len(out[c][i].fieldCode) > 0
        /\ Len(out[c][j].fieldCode) > 0

RECURSIVE RunAlone(_)
\* what an export produces from the groups h when it runs on its own,
\* starting from an empty itemIdMap and an empty warning list
RunAlone(h) ==
    IF h = <<>> THEN [out |-> <<>>, map |-> <<>>, warnings |-> <<>>]
    ELSE LET n == Len(h)
             before == RunAlone(SubSeq(h, 1, n - 1))
             r == GenerateCitation(h[n], Bib, before.map)
         IN [out |-> Append(before.out, r.rendered),
             map |-> r.map,
             warnings |-> before.warnings \o r.warnings]

\* C5: interleaved exports, each with its own itemIdMap and warning list,
\* produce exactly the identifiers and warnings they produce when run alone.
C5_CallsIndependent ==
    \A c \in Calls :
        status[c] # "idle" =>
            /\ out[c] = RunAlone(hist[c]).out
            /\ warnings[c] = RunAlone(hist[c]).warnings

\* two exports are running, both have rendered Zotero-linked keys and
\* collected warnings, and they gave the same key different identifiers
C5_Witness ==
    \E x \in ItemsOf(1), y \in ItemsOf(2) :
        /\ status[1] = "running" /\ status[2] = "running"
        /\ x.item.key = y.item.key
        /\ x.item.id # y.item.id
        /\ warnings[1] # <<>> /\ warnings[2] # <<>>

(***************************************************************************)
(* OMML -> LaTeX translator (src/omml.ts)                                  *)
(*                                                                         *)
(* A parsed XML node is [tag, val, children]: val is the text of a #text   *)
(* node or the m:val attribute of a property element.  Text is a sequence  *)
(* of characters and LaTeX output is a sequence of tokens, so that braces  *)
(* and \left / \right can be counted.                                      *)
(***************************************************************************)

Node(tag, val, children) == [tag |-> tag, val |-> val, children |-> children]

\* <m:t>text</m:t> and <m:r><m:t>text</m:t></m:r>
Text(chars) == Node("m:t", <<>>, <<Node("#text", chars, <<>>)>>)
Run(chars) == Node("m:r", <<>>, <<Text(chars)>>)
\* a property element carrying one m:val attribute, e.g. <m:chr m:val="..."/>
Attr(tag, v) == Node(tag, v, <<>>)

\* a null entry of a parsed children array: reading its keys is a TypeError
NullNode == Node("#null", <<>>, <<>>)

RECURSIVE Throws(_)
\* whether walking the children raises a runtime fault
Throws(children) ==
    \E i \in 1..Len(children) :
        children[i].tag = "#null" \/ Throws(children[i].children)

RECURSIVE Flatten(_)
\* concatenation of a sequence of sequences
Flatten(ss) == IF ss = <<>> THEN <<>> ELSE Head(ss) \o Flatten(Tail(ss))

\* the first child with the given tag, <<>> when there is none
ChildrenTagged(children, tag) ==
    SelectSeq(children, LAMBDA n : n.tag = tag)

HasChild(children, tag) == ChildrenTagged(children, tag) # <<>>

\* the children of the first child element with the given tag
ChildOf(children, tag) == ChildrenTagged(children, tag)[1].children

\* getOmmlAttr: the m:val of property `attr` inside property element `pr`
GetOmmlAttr(children, pr, attr) ==
    IF HasChild(children, pr) /\ HasChild(ChildOf(children, pr), attr)
    THEN ChildrenTagged(ChildOf(children, pr), attr)[1].val
    ELSE <<>>

\* UNICODE_LATEX_MAP (two of its entries)
UNICODE_LATEX_MAP == ("U+03B1" :> "\\alpha") @@ ("U+00D7" :> "\\times")

\* ACCENT_MAP (two of its entries)
ACCENT_MAP == ("U+0302" :> "\\hat") @@ ("U+0305" :> "\\bar")

\* NARY_MAP (two of its entries)
NARY_MAP == ("U+2211" :> "\\sum") @@ ("U+222B" :> "\\int")

\* KNOWN_FUNCTIONS (two of its entries)
KNOWN_FUNCTIONS == {<<"s", "i", "n">>, <<"l", "i", "m">>}

Letters == {"a", "b", "i", "l", "m", "n", "s", "x", "y"}

\* the reserved LaTeX characters and their escaped form
EscapeChar(ch) ==
    CASE ch \in {"#", "$", "%", "&", "_", "{", "}"} -> <<"\\" \o ch>>
      [] ch = "~"  -> <<"\\textasciitilde", "{", "}">>
      [] ch = "^"  -> <<"\\textasciicircum", "{", "}">>
      [] ch = "\\" -> <<"\\textbackslash", "{", "}">>
      [] OTHER -> <<ch>>

\* escapeLatex: escape reserved LaTeX chars in text
EscapeLatex(chars) ==
    Flatten([i \in 1..Len(chars) |-> EscapeChar(chars[i])])

\* unicodeToLatex: mapped code points become commands, others pass through
UnicodeToLatex(ch) ==
    IF ch \in DOMAIN UNICODE_LATEX_MAP
    THEN <<UNICODE_LATEX_MAP[ch]>>
    ELSE EscapeChar(ch)

\* isMultiLetter: more than one character, all of them letters
IsMultiLetter(chars) ==
    Len(chars) > 1 /\ \A i \in 1..Len(chars) : chars[i] \in Letters

RECURSIVE ExtractAllText(_)
\* extractAllText: the text of every #text node below, in document order
ExtractAllText(children) ==
    Flatten([i \in 1..Len(children) |->
        IF children[i].tag = "#text" THEN children[i].val
        ELSE ExtractAllText(children[i].children)])

\* tag.replace('m:', '')
TagName(tag) ==
    CASE tag = "m:f" -> "f"
      [] tag = "m:sSup" -> "sSup"
      [] tag = "m:sSub" -> "sSub"
      [] tag = "m:sSubSup" -> "sSubSup"
      [] tag = "m:rad" -> "rad"
      [] tag = "m:nary" -> "nary"
      [] tag = "m:d" -> "d"
      [] tag = "m:acc" -> "acc"
      [] tag = "m:m" -> "m"
      [] tag = "m:func" -> "func"
      [] tag = "m:weirdConstruct" -> "weirdConstruct"
      [] tag = "m:box" -> "box"
      [] OTHER -> tag

\* the placeholder without escaping the recovered text
FallbackPlaceholderRaw(tag, children) ==
    LET textContent == ExtractAllText(children)
    IN <<"\\text", "{", "[UNSUPPORTED: ", TagName(tag), "]">>
          \o (IF textContent # <<>> THEN <<" ">> \o textContent ELSE <<>>)
          \o <<"}">>

\* fallbackPlaceholder: \text{[UNSUPPORTED: name] escaped-text}
FallbackPlaceholder(tag, children) ==
    LET textContent == ExtractAllText(children)
        escaped == EscapeLatex(textContent)
    IN <<"\\text", "{", "[UNSUPPORTED: ", TagName(tag), "]">>
          \o (IF escaped # <<>> THEN <<" ">> \o escaped ELSE <<>>)
          \o <<"}">>

RECURSIVE TrimLeft(_)
TrimLeft(s) == IF s # <<>> /\ Head(s) = " " THEN TrimLeft(Tail(s)) ELSE s

RECURSIVE TrimRight(_)
TrimRight(s) ==
    IF s # <<>> /\ s[Len(s)] = " " THEN TrimRight(SubSeq(s, 1, Len(s) - 1)) ELSE s

\* String.prototype.trim on a token sequence
Trim(s) == TrimRight(TrimLeft(s))

Braced(s) == <<"{">> \o s \o <<"}">>

\* property / control tags that translateNode skips
PropertyTags ==
    {"m:rPr", "m:ctrlPr", "m:fPr", "m:sSupPr", "m:sSubPr", "m:sSubSupPr",
     "m:radPr", "m:naryPr", "m:dPr", "m:accPr", "m:mPr", "m:funcPr",
     "m:oMathParaPr", "w:rPr", "w:bookmarkStart", "w:bookmarkEnd", "w:proofErr"}

RECURSIVE OmmlToLatex(_)
RECURSIVE TranslateNode(_, _)

\* translateText: m:t text extraction with Unicode mapping and escaping
TranslateText(children) ==
    LET chars == ExtractAllText(children)
    IN Flatten([i \in 1..Len(chars) |-> UnicodeToLatex(chars[i])])

\* translateRun: m:r; a single letter is a variable, a multi-letter run is
\* wrapped in \mathrm{} unless it is a known function name
TranslateRun(children) ==
    LET chars == ExtractAllText(ChildrenTagged(children, "m:t"))
        mapped == Flatten([i \in 1..Len(chars) |-> UnicodeToLatex(chars[i])])
    IN IF chars \in KNOWN_FUNCTIONS THEN <<"\\">> \o chars
       ELSE IF IsMultiLetter(chars) THEN <<"\\mathrm">> \o Braced(mapped)
       ELSE mapped

\* translateFraction: m:f  ->  \frac{num}{den}
TranslateFraction(children) ==
    IF ~HasChild(children, "m:num") \/ ~HasChild(children, "m:den")
    THEN FallbackPlaceholder("m:f", children)
    ELSE <<"\\frac">> \o Braced(OmmlToLatex(ChildOf(children, "m:num")))
                      \o Braced(OmmlToLatex(ChildOf(children, "m:den")))

\* translateSuperscript: m:sSup  ->  {base}^{sup}
TranslateSuperscript(children) ==
    IF ~HasChild(children, "m:e") \/ ~HasChild(children, "m:sup")
    THEN FallbackPlaceholder("m:sSup", children)
    ELSE Braced(OmmlToLatex(ChildOf(children, "m:e"))) \o <<"^">>
            \o Braced(OmmlToLatex(ChildOf(children, "m:sup")))

\* translateSubscript: m:sSub  ->  {base}_{sub}
TranslateSubscript(children) ==
    IF ~HasChild(children, "m:e") \/ ~HasChild(children, "m:sub")
    THEN FallbackPlaceholder("m:sSub", children)
    ELSE Braced(OmmlToLatex(ChildOf(children, "m:e"))) \o <<"_">>
            \o Braced(OmmlToLatex(ChildOf(children, "m:sub")))

\* translateSubSup: m:sSubSup  ->  {base}_{sub}^{sup}
TranslateSubSup(children) ==
    IF ~HasChild(children, "m:e") \/ ~HasChild(children, "m:sub")
          \/ ~HasChild(children, "m:sup")
    THEN FallbackPlaceholder("m:sSubSup", children)
    ELSE Braced(OmmlToLatex(ChildOf(children, "m:e"))) \o <<"_">>
            \o Braced(OmmlToLatex(ChildOf(children, "m:sub"))) \o <<"^">>
            \o Braced(OmmlToLatex(ChildOf(children, "m:sup")))

\* translateRadical: m:rad  ->  \sqrt[deg]{e} or \sqrt{e}
TranslateRadical(children) ==
    IF ~HasChild(children, "m:e")
    THEN FallbackPlaceholder("m:rad", children)
    ELSE LET deg == IF HasChild(children, "m:deg")
                    THEN OmmlToLatex(ChildOf(children, "m:deg")) ELSE <<>>
         IN <<"\\sqrt">>
               \o (IF deg # <<>> THEN <<"[">> \o deg \o <<"]">> ELSE <<>>)
               \o Braced(OmmlToLatex(ChildOf(children, "m:e")))

\* translateNary: m:nary  ->  \sum_{sub}^{sup}{e}; an operator character
\* outside NARY_MAP is emitted as it is
TranslateNary(children) ==
    IF ~HasChild(children, "m:e")
    THEN FallbackPlaceholder("m:nary", children)
    ELSE LET chr == GetOmmlAttr(children, "m:naryPr", "m:chr")
             op  == IF chr = <<>> THEN <<"\\int">>
                    ELSE IF chr[1] \in DOMAIN NARY_MAP THEN <<NARY_MAP[chr[1]]>>
                    ELSE chr
             sub == IF HasChild(children, "m:sub")
                    THEN OmmlToLatex(ChildOf(children, "m:sub")) ELSE <<>>
             sup == IF HasChild(children, "m:sup")
                    THEN OmmlToLatex(ChildOf(children, "m:sup")) ELSE <<>>
         IN op \o (IF sub # <<>> THEN <<"_">> \o Braced(sub) ELSE <<>>)
               \o (IF sup # <<>> THEN <<"^">> \o Braced(sup) ELSE <<>>)
               \o Braced(OmmlToLatex(ChildOf(children, "m:e")))

RECURSIVE JoinWith(_, _)
\* Array.prototype.join on token sequences
JoinWith(parts, sep) ==
    IF parts = <<>> THEN <<>>
    ELSE IF Len(parts) = 1 THEN parts[1]
    ELSE parts[1] \o sep \o JoinWith(Tail(parts), sep)

\* the delimiter group without its closing \right
TranslateDelimiterUnclosed(children) ==
    LET es == ChildrenTagged(children, "m:e")
    IN <<"\\left", "(">>
          \o JoinWith([i \in 1..Len(es) |-> OmmlToLatex(es[i].children)], <<",">>)

\* translateDelimiter: m:d  ->  \left( e1, e2, ... \right)
TranslateDelimiter(children) ==
    LET es == ChildrenTagged(children, "m:e")
    IN IF es = <<>> THEN FallbackPlaceholder("m:d", children)
       ELSE <<"\\left", "(">>
               \o JoinWith([i \in 1..Len(es) |-> OmmlToLatex(es[i].children)],
                           <<",">>)
               \o <<"\\right", ")">>

\* translateAccent: m:acc  ->  \hat{e}; an unknown accent character is
\* unsupported
TranslateAccent(children) ==
    LET chr == GetOmmlAttr(children, "m:accPr", "m:chr")
    IN IF ~HasChild(children, "m:e") THEN FallbackPlaceholder("m:acc", children)
       ELSE IF chr = <<>> THEN <<"\\hat">> \o Braced(OmmlToLatex(ChildOf(children, "m:e")))
       ELSE IF chr[1] \in DOMAIN ACCENT_MAP
       THEN <<ACCENT_MAP[chr[1]]>> \o Braced(OmmlToLatex(ChildOf(children, "m:e")))
       ELSE FallbackPlaceholder("m:acc", children)

\* translateMatrix: m:m  ->  \begin{matrix} a & b \\ c & d \end{matrix}
TranslateMatrix(children) ==
    LET rows == ChildrenTagged(children, "m:mr")
        Row(r) == LET cells == ChildrenTagged(r.children, "m:e")
                  IN JoinWith([j \in 1..Len(cells) |->
                                  OmmlToLatex(cells[j].children)], <<"&">>)
    IN IF rows = <<>> THEN FallbackPlaceholder("m:m", children)
       ELSE <<"\\begin", "{", "matrix", "}">>
               \o JoinWith([i \in 1..Len(rows) |-> Row(rows[i])], <<"\\\\">>)
               \o <<"\\end", "{", "matrix", "}">>

\* translateFunction: m:func  ->  \sin{e} or \operatorname{name}{e}
TranslateFunction(children) ==
    IF ~HasChild(children, "m:fName") \/ ~HasChild(children, "m:e")
    THEN FallbackPlaceholder("m:func", children)
    ELSE LET name == ExtractAllText(ChildOf(children, "m:fName"))
             arg  == Braced(OmmlToLatex(ChildOf(children, "m:e")))
         IN IF name \in KNOWN_FUNCTIONS THEN <<"\\">> \o name \o arg
            ELSE <<"\\operatorname">> \o Braced(EscapeLatex(name)) \o arg

\* the element tags of the math namespace that occur in a document
MathTags ==
    {"m:f", "m:sSup", "m:sSub", "m:sSubSup", "m:rad", "m:nary", "m:d",
     "m:acc", "m:m", "m:func", "m:r", "m:t", "m:num", "m:den", "m:e",
     "m:sub", "m:sup", "m:deg", "m:mr", "m:fName", "m:chr",
     "m:weirdConstruct", "m:box"} \cup {t \in PropertyTags : t \notin
        {"w:rPr", "w:bookmarkStart", "w:bookmarkEnd", "w:proofErr"}}

\* an unrecognised element is skipped like a property tag
TranslateDefaultSkips(tag, children) == <<>>

\* translateNode, default arm: an m: tag that is no property tag becomes a
\* placeholder, property and control tags are skipped
TranslateDefault(tag, children) ==
    IF tag \in MathTags /\ tag \notin PropertyTags
    THEN FallbackPlaceholder(tag, children)
    ELSE <<>>

\* translateNode: dispatch by tag name
TranslateNode(tag, children) ==
    CASE tag = "m:f"       -> TranslateFraction(children)
      [] tag = "m:sSup"    -> TranslateSuperscript(children)
      [] tag = "m:sSub"    -> TranslateSubscript(children)
      [] tag = "m:sSubSup" -> TranslateSubSup(children)
      [] tag = "m:rad"     -> TranslateRadical(children)
      [] tag = "m:nary"    -> TranslateNary(children)
      [] tag = "m:d"       -> TranslateDelimiter(children)
      [] tag = "m:acc"     -> TranslateAccent(children)
      [] tag = "m:m"       -> TranslateMatrix(children)
      [] tag = "m:func"    -> TranslateFunction(children)
      [] tag = "m:r"       -> TranslateRun(children)
      [] tag = "m:t"       -> TranslateText(children)
      [] OTHER             -> TranslateDefault(tag, children)

\* ommlToLatex: the concatenated translations of the children, trimmed
OmmlToLatex(children) ==
    Trim(Flatten([i \in 1..Len(children) |->
                     TranslateNode(children[i].tag, children[i].children)]))

(***************************************************************************)
(* Translating math subtrees: the subtree is built node by node and        *)
(* ommlToLatex is applied to every subtree built.                          *)
(***************************************************************************)

\* nodes a math subtree is built from
MaxMathSteps == 3

Elem(tag, children) == Node(tag, <<>>, children)

\* m:r runs and unsupported / malformed elements appended as siblings
MathLeaves ==
    { Run(<<"x">>),
      Run(<<"a", "b">>),
      Run(<<"{", "U+03B1", "\\">>),
      Elem("m:weirdConstruct", <<Run(<<"x">>)>>),
      Elem("m:box", <<Elem("m:e", <<Run(<<"}", "_">>)>>)>>),
      Elem("m:f", <<Elem("m:fPr", <<>>), Elem("m:num", <<Run(<<"a">>)>>)>>) }

Y == <<Run(<<"y">>)>>

\* the constructs that take the subtree built so far as an operand
WrapKinds ==
    {"frac", "sSup", "sSupNoSup", "sSub", "sSubSup", "rad", "radDeg", "nary",
     "naryUnknown", "d", "acc", "accUnknown", "m", "func", "funcUnknown",
     "weird"}

WrapNode(kind, cur) ==
    CASE kind = "frac" ->
           Elem("m:f", <<Elem("m:num", cur), Elem("m:den", Y)>>)
      [] kind = "sSup" ->
           Elem("m:sSup", <<Elem("m:e", Y), Elem("m:sup", cur)>>)
      [] kind = "sSupNoSup" ->
           Elem("m:sSup", <<Elem("m:e", cur)>>)
      [] kind = "sSub" ->
           Elem("m:sSub", <<Elem("m:e", cur), Elem("m:sub", Y)>>)
      [] kind = "sSubSup" ->
           Elem("m:sSubSup",
                <<Elem("m:e", Y), Elem("m:sub", cur), Elem("m:sup", Y)>>)
      [] kind = "rad" ->
           Elem("m:rad", <<Elem("m:deg", <<>>), Elem("m:e", cur)>>)
      [] kind = "radDeg" ->
           Elem("m:rad", <<Elem("m:deg", cur), Elem("m:e", Y)>>)
      [] kind = "nary" ->
           Elem("m:nary",
                <<Elem("m:naryPr", <<Attr("m:chr", <<"U+2211">>)>>),
                  Elem("m:sub", Y), Elem("m:sup", cur), Elem("m:e", Y)>>)
      [] kind = "naryUnknown" ->
           Elem("m:nary",
                <<Elem("m:naryPr", <<Attr("m:chr", <<"U+2A00">>)>>),
                  Elem("m:sub", <<>>), Elem("m:sup", <<>>), Elem("m:e", cur)>>)
      [] kind = "d" ->
           Elem("m:d", <<Elem("m:dPr", <<>>), Elem("m:e", cur), Elem("m:e", Y)>>)
      [] kind = "acc" ->
           Elem("m:acc",
                <<Elem("m:accPr", <<Attr("m:chr", <<"U+0302">>)>>),
                  Elem("m:e", cur)>>)
      [] kind = "accUnknown" ->
           Elem("m:acc",
                <<Elem("m:accPr", <<Attr("m:chr", <<"U+20DB">>)>>),
                  Elem("m:e", cur)>>)
      [] kind = "m" ->
           Elem("m:m", <<Elem("m:mr", <<Elem("m:e", cur), Elem("m:e", Y)>>),
                         Elem("m:mr", <<Elem("m:e", Y), Elem("m:e", Y)>>)>>)
      [] kind = "func" ->
           Elem("m:func",
                <<Elem("m:fName", <<Run(<<"s", "i", "n">>)>>), Elem("m:e", cur)>>)
      [] kind = "funcUnknown" ->
           Elem("m:func",
                <<Elem("m:fName", <<Run(<<"a", "_">>)>>), Elem("m:e", cur)>>)
      [] kind = "weird" ->
           Elem("m:weirdConstruct", cur)

\* one more sibling is appended and the subtree translated
MathAppend(leaf) ==
    /\ mathSteps < MaxMathSteps
    /\ mathIn' = Append(mathIn, leaf)
    /\ mathOut' = OmmlToLatex(mathIn')
    /\ mathSteps' = mathSteps + 1
    /\ UNCHANGED notMath

\* the subtree becomes an operand of a construct and the result is translated
MathWrap(kind) ==
    /\ mathSteps < MaxMathSteps
    /\ mathIn # <<>>
    /\ mathIn' = <<WrapNode(kind, mathIn)>>
    /\ mathOut' = OmmlToLatex(mathIn')
    /\ mathSteps' = mathSteps + 1
    /\ UNCHANGED notMath

MathInit ==
    /\ mathIn = <<>>
    /\ mathOut = <<>>
    /\ mathSteps = 0

MathNext ==
    \/ \E leaf \in MathLeaves : MathAppend(leaf)
    \/ \E kind \in WrapKinds : MathWrap(kind)

(***************************************************************************)
(* Claims about the translator                                             *)
(***************************************************************************)

\* an element translateNode has no handler for
IsUnsupported(node) == node.tag \in {"m:weirdConstruct", "m:box"}

\* a recognised construct without one of its required children
IsMalformed(node) ==
    \/ node.tag = "m:f" /\ (~HasChild(node.children, "m:num")
                               \/ ~HasChild(node.children, "m:den"))
    \/ node.tag = "m:sSup" /\ (~HasChild(node.children, "m:e")
                                  \/ ~HasChild(node.children, "m:sup"))

\* the tag names as they must appear in the placeholder
NameInPlaceholder ==
    ("m:weirdConstruct" :> "weirdConstruct") @@ ("m:box" :> "box")
        @@ ("m:f" :> "f") @@ ("m:sSup" :> "sSup")

RECURSIVE Nesting(_, _, _, _)
\* whether every `close` in s matches an earlier `open` and none stays open,
\* d being the number of openers not yet closed
Nesting(s, open, close, d) ==
    IF s = <<>> THEN d = 0
    ELSE IF Head(s) = open THEN Nesting(Tail(s), open, close, d + 1)
    ELSE IF Head(s) = close THEN d > 0 /\ Nesting(Tail(s), open, close, d - 1)
    ELSE Nesting(Tail(s), open, close, d)

\* C8: the LaTeX ommlToLatex returns has every grouping brace and every
\* \left matched by its closer, placeholders and escaped text included.
C8_BalancedOutput ==
    /\ Nesting(mathOut, "{", "}", 0)
    /\ Nesting(mathOut, "\\left", "\\right", 0)

\* a subtree with a placeholder whose text holds a reserved brace, inside a
\* delimiter group, inside a further construct
C8_Witness ==
    /\ mathSteps >= 3
    /\ "[UNSUPPORTED: " \in Range(mathOut)
    /\ "\\}" \in Range(mathOut)
    /\ "\\left" \in Range(mathOut)
    /\ "\\frac" \in Range(mathOut)

(***************************************************************************)
(* Document tree walker and markdown builder (src/converter.ts)            *)
(***************************************************************************)

\* document nodes one conversion walks
MaxWalk == 3

\* the children of the m:oMath elements found in documents
MathX == <<Run(<<"x">>)>>
MathFrac == <<Elem("m:f", <<Elem("m:num", <<Run(<<"a">>)>>),
                            Elem("m:den", <<Run(<<"b">>)>>)>>)>>
\* only a property element: the translation is the empty string
MathEmpty == <<Elem("m:ctrlPr", <<>>)>>
\* a corrupt subtree: translating it raises a runtime fault
MathCorrupt == <<Run(<<"x">>), Elem("m:r", <<NullNode>>)>>

OMath(children) == Elem("m:oMath", children)

\* the citationItems of an ADDIN ZOTERO_ITEM CSL_CITATION field code, as the
\* export writes them for [@doe2021; @jones2022, p. 20]
CitationField ==
    BuildCitationFieldCode(<<Cite("doe2021", Undefined), Cite("jones2022", "20")>>,
                           Bib, <<>>).items

\* The nodes walk() meets inside the document body, in any order: text runs,
\* inline equations, display equations (m:oMathPara with its m:oMath
\* children and other children) and the end of a paragraph.
DocNodes ==
    { Node("w:r", "abc", <<>>),
      OMath(MathX),
      OMath(MathEmpty),
      OMath(MathCorrupt),
      Elem("m:oMathPara", <<OMath(MathX)>>),
      Elem("m:oMathPara", <<Elem("m:oMathParaPr", <<>>), OMath(MathFrac),
                            OMath(MathX)>>),
      Elem("m:oMathPara", <<OMath(MathEmpty), Node("w:r", "stray", <<>>),
                            OMath(MathX)>>),
      Elem("m:oMathPara", <<OMath(MathX), OMath(MathCorrupt), OMath(MathFrac)>>),
      Node("w:instrText", CitationField, <<>>),
      Elem("w:p-end", <<>>) }

\* ContentItem variants
TextItem(t) == [type |-> "text", text |-> t]
ParaItem == [type |-> "para"]
MathItem(latex, display) == [type |-> "math", latex |-> latex, display |-> display]

CitationContentItem(cites) == [type |-> "citation", items |-> cites]

\* extractZoteroCitations, per cited item: the key and the locator, which is
\* set only when the field code holds a non-empty one
ExtractCitationItems(citationItems) ==
    [i \in 1..Len(citationItems) |->
        Cite(citationItems[i].key,
             IF citationItems[i].locator \in {Undefined, ""}
             THEN Undefined ELSE citationItems[i].locator)]

\* one cited item in Pandoc syntax: @key or @key, p. <locator>
RenderCitationItem(cite) ==
    <<"@", cite.key>>
       \o (IF cite.locator # Undefined THEN <<", p. ", cite.locator>> ELSE <<>>)

\* a citation group rendered with one locator for the whole group
RenderCitationSharedLocator(cites) ==
    LET located == SelectSeq(cites, LAMBDA c : c.locator # Undefined)
    IN <<"[">> \o JoinWith([i \in 1..Len(cites) |-> <<"@", cites[i].key>>], <<"; ">>)
             \o (IF located # <<>> THEN <<", p. ", located[1].locator>> ELSE <<>>)
             \o <<"]">>

\* a citation group in Pandoc syntax: [@key1, p. 20; @key2]
RenderCitation(cites) ==
    <<"[">> \o JoinWith([i \in 1..Len(cites) |-> RenderCitationItem(cites[i])],
                       <<"; ">>)
          \o <<"]">>

\* the item walk() pushes when ommlToLatex throws
EquationError == <<"\\text", "{", "[EQUATION ERROR]", "}">>

\* a translator keeping state between its calls: the output of a call
\* depends on what was translated before it
CallOmmlToLatexStateful(children) ==
    IF Throws(children) THEN [threw |-> TRUE, latex |-> <<>>]
    ELSE [threw |-> FALSE,
          latex |-> IF content = <<>> \/ OmmlToLatex(children) = <<>>
                    THEN OmmlToLatex(children)
                    ELSE OmmlToLatex(children) \o <<"'">>]

\* the result of a call of ommlToLatex: a LaTeX string or a thrown fault
CallOmmlToLatex(children) ==
    IF Throws(children) THEN [threw |-> TRUE, latex |-> <<>>]
    ELSE [threw |-> FALSE, latex |-> OmmlToLatex(children)]

RECURSIVE MathParaItemsInline(_)
\* the m:oMathPara branch pushing its children as inline equations
MathParaItemsInline(oMathNodes) ==
    IF oMathNodes = <<>> THEN [items |-> <<>>, threw |-> FALSE]
    ELSE LET r == CallOmmlToLatex(Head(oMathNodes).children)
             rest == MathParaItemsInline(Tail(oMathNodes))
         IN IF r.threw THEN [items |-> <<>>, threw |-> TRUE]
            ELSE [items |-> (IF r.latex # <<>>
                             THEN <<MathItem(r.latex, FALSE)>> ELSE <<>>)
                            \o rest.items,
                  threw |-> rest.threw]

RECURSIVE MathParaItems(_)
\* the loop of the m:oMathPara branch over oMathNodes: the items pushed, and
\* whether a call of ommlToLatex threw (nothing catches it in this branch)
MathParaItems(oMathNodes) ==
    IF oMathNodes = <<>> THEN [items |-> <<>>, threw |-> FALSE]
    ELSE LET r == CallOmmlToLatex(Head(oMathNodes).children)
             rest == MathParaItems(Tail(oMathNodes))
         IN IF r.threw THEN [items |-> <<>>, threw |-> TRUE]
            ELSE [items |-> (IF r.latex # <<>>
                             THEN <<MathItem(r.latex, TRUE)>> ELSE <<>>)
                            \o rest.items,
                  threw |-> rest.threw]

\* the m:oMath branch without its try / catch
MathItemsUncaught(mathChildren) ==
    LET r == CallOmmlToLatex(mathChildren)
    IN IF r.threw THEN [items |-> <<>>, threw |-> TRUE]
       ELSE [items |-> (IF r.latex # <<>>
                        THEN <<MathItem(r.latex, FALSE)>> ELSE <<>>),
             threw |-> FALSE]

\* the m:oMath branch pushing its item without the `if (latex)` test
MathItemsKeepEmpty(mathChildren) ==
    LET r == CallOmmlToLatex(mathChildren)
    IN IF r.threw
       THEN [items |-> <<MathItem(EquationError, FALSE)>>, threw |-> FALSE]
       ELSE [items |-> <<MathItem(r.latex, FALSE)>>, threw |-> FALSE]

\* the m:oMath branch: try { ommlToLatex } catch { push EQUATION ERROR }
MathItems(mathChildren) ==
    LET r == CallOmmlToLatex(mathChildren)
    IN IF r.threw
       THEN [items |-> <<MathItem(EquationError, FALSE)>>, threw |-> FALSE]
       ELSE [items |-> (IF r.latex # <<>>
                        THEN <<MathItem(r.latex, FALSE)>> ELSE <<>>),
             threw |-> FALSE]

\* walk() visits one more node: r is what the node's branch pushed
Visit(node, r) ==
    /\ wdoc' = Append(wdoc, node)
    /\ emitted' = Append(emitted, r.items)
    /\ content' = content \o r.items
    /\ wstatus' = IF r.threw THEN "failed" ELSE "walking"
    /\ UNCHANGED markdown
    /\ UNCHANGED notWalk

\* key === 'm:oMathPara'
WalkMathPara(node) ==
    /\ wstatus = "walking" /\ Len(wdoc) < MaxWalk
    /\ node.tag = "m:oMathPara"
    /\ Visit(node, MathParaItems(ChildrenTagged(node.children, "m:oMath")))

\* key === 'm:oMath'
WalkMath(node) ==
    /\ wstatus = "walking" /\ Len(wdoc) < MaxWalk
    /\ node.tag = "m:oMath"
    /\ Visit(node, MathItems(node.children))

\* a text run
WalkRun(node) ==
    /\ wstatus = "walking" /\ Len(wdoc) < MaxWalk
    /\ node.tag = "w:r"
    /\ Visit(node, [items |-> <<TextItem(node.val)>>, threw |-> FALSE])

\* a citation field-code run, handed to the citation extraction
WalkCitation(node) ==
    /\ wstatus = "walking" /\ Len(wdoc) < MaxWalk
    /\ node.tag = "w:instrText"
    /\ Visit(node, [items |-> <<CitationContentItem(ExtractCitationItems(node.val))>>,
                    threw |-> FALSE])

\* the end of a paragraph: the paragraph separator
WalkParaEnd(node) ==
    /\ wstatus = "walking" /\ Len(wdoc) < MaxWalk
    /\ node.tag = "w:p-end"
    /\ Visit(node, [items |-> <<ParaItem>>, threw |-> FALSE])

\* output[output.length - 1].endsWith('\n\n')
EndsWithBlankLine(chunk) ==
    Len(chunk) >= 2 /\ chunk[Len(chunk)] = "\n" /\ chunk[Len(chunk) - 1] = "\n"

\* the math handler pushing display math without the blank line before it
PushMathNoSeparator(output, item) ==
    IF item.display
    THEN Append(output, <<"$$", "\n">> \o item.latex \o <<"\n", "$$">>)
    ELSE Append(output, <<"$">> \o item.latex \o <<"$">>)

\* buildMarkdown, item.type === 'math'
PushMath(output, item) ==
    IF item.display
    THEN LET sep == IF Len(output) > 0 /\ ~EndsWithBlankLine(output[Len(output)])
                    THEN Append(output, <<"\n", "\n">>) ELSE output
         IN Append(sep, <<"$$", "\n">> \o item.latex \o <<"\n", "$$">>)
    ELSE Append(output, <<"$">> \o item.latex \o <<"$">>)

RECURSIVE BuildChunksReversed(_, _)
\* buildMarkdown's loop running over the content items from the last one
BuildChunksReversed(output, items) ==
    IF items = <<>> THEN output
    ELSE LET item == items[Len(items)]
             next == CASE item.type = "math" -> PushMath(output, item)
                       [] item.type = "para" -> Append(output, <<"\n", "\n">>)
                       [] item.type = "text" -> Append(output, <<item.text>>)
                       [] item.type = "citation" ->
                             Append(output, RenderCitation(item.items))
         IN BuildChunksReversed(next, SubSeq(items, 1, Len(items) - 1))

RECURSIVE BuildChunks(_, _)
\* buildMarkdown's loop over the content items
BuildChunks(output, items) ==
    IF items = <<>> THEN output
    ELSE LET item == Head(items)
             next == CASE item.type = "math" -> PushMath(output, item)
                       [] item.type = "para" -> Append(output, <<"\n", "\n">>)
                       [] item.type = "text" -> Append(output, <<item.text>>)
                       [] item.type = "citation" ->
                             Append(output, RenderCitation(item.items))
         IN BuildChunks(next, Tail(items))

\* buildMarkdown(content)
BuildMarkdown(items) == BuildChunks(<<>>, items)

\* the walk is over: the content items are rendered
Render ==
    /\ wstatus = "walking"
    /\ wstatus' = "done"
    /\ markdown' = BuildMarkdown(content)
    /\ UNCHANGED <<wdoc, emitted, content>>
    /\ UNCHANGED notWalk

WalkInit ==
    /\ wdoc = <<>>
    /\ emitted = <<>>
    /\ content = <<>>
    /\ wstatus = "walking"
    /\ markdown = <<>>

WalkNext ==
    \/ \E node \in DocNodes : WalkMathPara(node)
    \/ \E node \in DocNodes : WalkMath(node)
    \/ \E node \in DocNodes : WalkRun(node)
    \/ \E node \in DocNodes : WalkCitation(node)
    \/ \E node \in DocNodes : WalkParaEnd(node)
    \/ Render

(***************************************************************************)
(* Citation extraction (src/extract_citations.js)                          *)
(*                                                                         *)
(* document.xml is a sequence of tokens: "ADDIN" stands for the text       *)
(* "ADDIN ZOTERO_ITEM CSL_CITATION " in front of a payload, the braces,    *)
(* brackets and commas of a payload are tokens of their own, "key:" is a   *)
(* quoted member name with its colon, and any other token is a piece of    *)
(* text without a brace.                                                   *)
(***************************************************************************)

MaxFields == 3

\* the member names and the string values occurring in payloads; in the XML
\* the quotes of a string may be written &quot;
JsonKeys == {"citationItems:", "locator:", "itemData:", "title:", "properties:",
             "plainCitation:"}
JsonAtoms == {"\"5\"", "\"7\"", "\"T\"", "\"x\""}

\* .replace(/&quot;/g, '"') ... .replace(/&amp;/g, '&') on one token
DecodeEntity(tok) ==
    CASE tok = "&quot;5&quot;" -> "\"5\""
      [] tok = "&quot;7&quot;" -> "\"7\""
      [] OTHER -> tok

DecodeEntities(toks) == [i \in 1..Len(toks) |-> DecodeEntity(toks[i])]

\* The field codes a document may hold: instruction text and what follows it
\* up to the next field.
FieldCodes ==
    { \* {"citationItems":[{"locator":"5"}]}
      <<"ADDIN", "{", "citationItems:", "[", "{", "locator:", "&quot;5&quot;",
        "}", "]", "}", "</w:instrText>">>,
      \* {"properties":{"plainCitation":"x"},"citationItems":[{"locator":"7",
      \*  "itemData":{"title":"T"}}]}
      <<"ADDIN", "{", "properties:", "{", "plainCitation:", "\"x\"", "}", ",",
        "citationItems:", "[", "{", "locator:", "\"7\"", ",", "itemData:",
        "{", "title:", "\"T\"", "}", "}", "]", "}", "</w:instrText>">>,
      \* {"citationItems":[]}
      <<"ADDIN", "{", "citationItems:", "[", "]", "}", "</w:instrText>">>,
      \* {not json}
      <<"ADDIN", "{", "not json", "}", "</w:instrText>">>,
      \* {"citationItems":[  -- cut off before any closing brace
      <<"ADDIN", "{", "citationItems:", "[", "</w:instrText>">> }

\* ---- JSON.parse on tokens: a value is [k |-> "obj", members], [k |-> "arr",
\* items] or [k |-> "atom", v]; ok = FALSE stands for the SyntaxError
JsonFail == [ok |-> FALSE, val |-> [k |-> "none"], rest |-> <<>>]

RECURSIVE ParseValue(_)
RECURSIVE ParseMembers(_, _, _)
RECURSIVE ParseElements(_, _, _)

ParseValue(t) ==
    IF t = <<>> THEN JsonFail
    ELSE IF Head(t) = "{" THEN ParseMembers(Tail(t), <<>>, TRUE)
    ELSE IF Head(t) = "[" THEN ParseElements(Tail(t), <<>>, TRUE)
    ELSE IF Head(t) \in JsonAtoms
         THEN [ok |-> TRUE, val |-> [k |-> "atom", v |-> Head(t)], rest |-> Tail(t)]
    ELSE JsonFail

ParseMembers(t, acc, first) ==
    IF t = <<>> THEN JsonFail
    ELSE IF first /\ Head(t) = "}"
         THEN [ok |-> TRUE, val |-> [k |-> "obj", members |-> acc], rest |-> Tail(t)]
    ELSE IF Head(t) \notin JsonKeys THEN JsonFail
    ELSE LET v == ParseValue(Tail(t))
             acc2 == Append(acc, [key |-> Head(t), val |-> v.val])
         IN IF ~v.ok \/ v.rest = <<>> THEN JsonFail
            ELSE IF Head(v.rest) = "," THEN ParseMembers(Tail(v.rest), acc2, FALSE)
            ELSE IF Head(v.rest) = "}"
                 THEN [ok |-> TRUE, val |-> [k |-> "obj", members |-> acc2],
                       rest |-> Tail(v.rest)]
            ELSE JsonFail

ParseElements(t, acc, first) ==
    IF t = <<>> THEN JsonFail
    ELSE IF first /\ Head(t) = "]"
         THEN [ok |-> TRUE, val |-> [k |-> "arr", items |-> acc], rest |-> Tail(t)]
    ELSE LET v == ParseValue(t)
             acc2 == Append(acc, v.val)
         IN IF ~v.ok \/ v.rest = <<>> THEN JsonFail
            ELSE IF Head(v.rest) = "," THEN ParseElements(Tail(v.rest), acc2, FALSE)
            ELSE IF Head(v.rest) = "]"
                 THEN [ok |-> TRUE, val |-> [k |-> "arr", items |-> acc2],
                       rest |-> Tail(v.rest)]
            ELSE JsonFail

\* JSON.parse(jsonStr): the whole text must be one value
JsonParse(t) ==
    LET r == ParseValue(t)
    IN IF r.ok /\ r.rest = <<>> THEN r ELSE JsonFail

\* obj.name for a parsed value: [k |-> "none"] is undefined
GetMember(val, name) ==
    IF val.k # "obj" THEN [k |-> "none"]
    ELSE LET hits == SelectSeq(val.members, LAMBDA m : m.key = name)
         IN IF hits = <<>> THEN [k |-> "none"] ELSE hits[Len(hits)].val

Truthy(val) == val.k # "none"

\* ---- pattern.exec: /ADDIN ZOTERO_ITEM CSL_CITATION\s+(\{.*?\}(?:\})*)/g
\* the positions at or after `from` where the pattern matches: the marker, an
\* opening brace, and a closing brace somewhere after it
MatchStarts(doc, from) ==
    {p \in from..(Len(doc) - 2) :
        /\ doc[p] = "ADDIN" /\ doc[p + 1] = "{"
        /\ \E q \in (p + 2)..Len(doc) : doc[q] = "}"}

\* the match at the leftmost of these positions: \{.*?\} stops at the first
\* closing brace, (?:\})* takes the closing braces directly behind it
ExecPattern(doc, from) ==
    IF MatchStarts(doc, from) = {} THEN [found |-> FALSE]
    ELSE LET p == CHOOSE x \in MatchStarts(doc, from) :
                      \A y \in MatchStarts(doc, from) : x <= y
             q == CHOOSE x \in (p + 2)..Len(doc) :
                      doc[x] = "}" /\ \A y \in (p + 2)..(x - 1) : doc[y] # "}"
             e == CHOOSE x \in q..Len(doc) :
                      /\ \A y \in q..x : doc[y] = "}"
                      /\ x = Len(doc) \/ doc[x + 1] # "}"
         IN [found |-> TRUE, group1 |-> SubSeq(doc, p + 1, e), lastIndex |-> e + 1]

RECURSIVE BraceScan(_, _, _)
\* the brace-counting loop: endIndex, 0 when braceCount never comes back to 0
BraceScan(jsonStr, i, braceCount) ==
    IF i > Len(jsonStr) THEN 0
    ELSE LET c == braceCount + (IF jsonStr[i] = "{" THEN 1 ELSE 0)
                             - (IF jsonStr[i] = "}" THEN 1 ELSE 0)
         IN IF c = 0 THEN i ELSE BraceScan(jsonStr, i + 1, c)

\* the record pushed for a citation item with a locator
LocatorRecord(item) ==
    LET title == GetMember(GetMember(item, "itemData:"), "title:")
    IN [locator |-> GetMember(item, "locator:").v,
        label |-> "page",
        title |-> IF title.k = "atom" THEN title.v ELSE "Unknown title"]

\* if (citation.citationItems) citation.citationItems.forEach(...): the
\* records pushed; forEach on a value that is no array is a TypeError
LocatorCitations(citation) ==
    LET items == GetMember(citation, "citationItems:")
    IN IF ~Truthy(items) THEN [threw |-> FALSE, pushed |-> <<>>]
       ELSE IF items.k # "arr" THEN [threw |-> TRUE, pushed |-> <<>>]
       ELSE LET located == SelectSeq(items.items,
                               LAMBDA it : Truthy(GetMember(it, "locator:")))
            IN [threw |-> FALSE,
                pushed |-> [i \in 1..Len(located) |-> LocatorRecord(located[i])]]

\* the body of the try block for one match
TryBlock(group1) ==
    LET decoded == DecodeEntities(group1)
        endIndex == BraceScan(decoded, 1, 0)
        parsed == JsonParse(SubSeq(decoded, 1, endIndex))
    IN IF ~parsed.ok THEN [threw |-> TRUE, pushed |-> <<>>]
       ELSE LocatorCitations(parsed.val)

\* document.xml grows by one field code before it is read
ReadField(f) ==
    /\ xstatus = "reading"
    /\ Cardinality({p \in 1..Len(documentXml) : documentXml[p] = "ADDIN"}) < MaxFields
    /\ documentXml' = documentXml \o f
    /\ UNCHANGED <<lastIndex, citations, consoleLog, xstatus>>
    /\ UNCHANGED notExtract

\* fs.readFileSync returned the text
StartScan ==
    /\ xstatus = "reading"
    /\ xstatus' = "scanning"
    /\ UNCHANGED <<documentXml, lastIndex, citations, consoleLog>>
    /\ UNCHANGED notExtract

\* unzip or readFileSync threw: the outer catch reports and returns []
ReadFails ==
    /\ xstatus = "reading"
    /\ xstatus' = "returned"
    /\ consoleLog' = Append(consoleLog, "Error processing")
    /\ UNCHANGED <<documentXml, lastIndex, citations>>
    /\ UNCHANGED notExtract

\* one iteration of the while loop: a match, the try block, the silent catch
ExecMatch ==
    /\ xstatus = "scanning"
    /\ LET m == ExecPattern(documentXml, lastIndex)
       IN /\ m.found
          /\ citations' = citations \o TryBlock(m.group1).pushed
          /\ lastIndex' = m.lastIndex
    /\ UNCHANGED <<documentXml, consoleLog, xstatus>>
    /\ UNCHANGED notExtract

\* exec returns null: cleanup and return citations
ExecNoMatch ==
    /\ xstatus = "scanning"
    /\ ~ExecPattern(documentXml, lastIndex).found
    /\ xstatus' = "returned"
    /\ UNCHANGED <<documentXml, lastIndex, citations, consoleLog>>
    /\ UNCHANGED notExtract

ExtractInit ==
    /\ documentXml = <<>>
    /\ lastIndex = 1
    /\ citations = <<>>
    /\ consoleLog = <<>>
    /\ xstatus = "reading"

ExtractNext ==
    \/ \E f \in FieldCodes : ReadField(f)
    \/ StartScan
    \/ ReadFails
    \/ ExecMatch
    \/ ExecNoMatch

RECURSIVE SplitFields(_, _)
\* the payloads of the field codes of a document, in order
SplitFields(doc, cur) ==
    IF doc = <<>> THEN <<>>
    ELSE IF Head(doc) = "ADDIN" THEN SplitFields(Tail(doc), <<>>)
    ELSE IF Head(doc) = "</w:instrText>" THEN <<cur>> \o SplitFields(Tail(doc), <<>>)
    ELSE SplitFields(Tail(doc), Append(cur, Head(doc)))

\* a payload that is one JSON value once its entities are decoded
WellFormed(payload) == JsonParse(DecodeEntities(payload)).ok

\* the locators of the citation items of a well-formed payload
LocatorsIn(payload) ==
    LET r == LocatorCitations(JsonParse(DecodeEntities(payload)).val)
    IN {r.pushed[i].locator : i \in 1..Len(r.pushed)}

\* C16: a field code whose payload cannot be parsed is skipped without a
\* report, and every well-formed field code after it is still extracted.
C16_MalformedSkippedRestExtracted ==
    (xstatus = "returned" /\ lastIndex > 1) =>
        LET fields == SplitFields(documentXml, <<>>)
        IN /\ consoleLog = <<>>
           /\ \A i, j \in 1..Len(fields) :
                 (i < j /\ ~WellFormed(fields[i]) /\ WellFormed(fields[j])) =>
                     LocatorsIn(fields[j])
                        \subseteq {citations[k].locator : k \in 1..Len(citations)}

(***************************************************************************)
(* markdown -> docx generators (src/md-to-docx.ts, as pinned by its tests) *)
(*                                                                         *)
(* XML output is a sequence of tokens, one per element tag or text.        *)
(***************************************************************************)

\* an MdRun of type 'text' with its formatting flags
MdRun(text, code, bold, italic, strikethrough, underline, highlight, superscript, subscript) ==
    [type |-> "text", text |-> text, code |-> code, bold |-> bold, italic |-> italic,
     strikethrough |-> strikethrough, underline |-> underline,
     highlight |-> highlight, superscript |-> superscript, subscript |-> subscript]

PlainRun(text) == MdRun(text, FALSE, FALSE, FALSE, FALSE, FALSE, FALSE, FALSE, FALSE)

\* every combination of the formatting flags
AllRuns ==
    {MdRun("t", c, b, i, s, u, h, sup, sub) :
        c \in BOOLEAN, b \in BOOLEAN, i \in BOOLEAN, s \in BOOLEAN,
        u \in BOOLEAN, h \in BOOLEAN, sup \in BOOLEAN, sub \in BOOLEAN}

VertAlignSuper == "<w:vertAlign w:val=\"superscript\"/>"
VertAlignSub == "<w:vertAlign w:val=\"subscript\"/>"

\* the run-property elements in their fixed order, superscript and subscript
\* both emitted when both are set
RPrElementsBothAligns(run) ==
    (IF run.code THEN <<"<w:rStyle w:val=\"CodeChar\"/>">> ELSE <<>>)
       \o (IF run.bold THEN <<"<w:b/>">> ELSE <<>>)
       \o (IF run.italic THEN <<"<w:i/>">> ELSE <<>>)
       \o (IF run.strikethrough THEN <<"<w:strike/>">> ELSE <<>>)
       \o (IF run.underline THEN <<"<w:u w:val=\"single\"/>">> ELSE <<>>)
       \o (IF run.highlight THEN <<"<w:highlight w:val=\"yellow\"/>">> ELSE <<>>)
       \o (IF run.superscript THEN <<VertAlignSuper>> ELSE <<>>)
       \o (IF run.subscript THEN <<VertAlignSub>> ELSE <<>>)

\* the run-property elements in their fixed order
RPrElements(run) ==
    (IF run.code THEN <<"<w:rStyle w:val=\"CodeChar\"/>">> ELSE <<>>)
       \o (IF run.bold THEN <<"<w:b/>">> ELSE <<>>)
       \o (IF run.italic THEN <<"<w:i/>">> ELSE <<>>)
       \o (IF run.strikethrough THEN <<"<w:strike/>">> ELSE <<>>)
       \o (IF run.underline THEN <<"<w:u w:val=\"single\"/>">> ELSE <<>>)
       \o (IF run.highlight THEN <<"<w:highlight w:val=\"yellow\"/>">> ELSE <<>>)
       \o (IF run.superscript THEN <<VertAlignSuper>>
           ELSE IF run.subscript THEN <<VertAlignSub>> ELSE <<>>)

\* generateRPr(run): '' without formatting, else <w:rPr>...</w:rPr>
GenerateRPr(run) ==
    IF RPrElements(run) = <<>> THEN <<>>
    ELSE <<"<w:rPr>">> \o RPrElements(run) \o <<"</w:rPr>">>

\* a call generateRPr(run)
CallGenerateRPr(run) ==
    /\ rprRun' = <<run>>
    /\ rprOut' = GenerateRPr(run)
    /\ UNCHANGED notRPr

RPrInit ==
    /\ rprRun = <<>>
    /\ rprOut = <<>>

RPrNext == \E run \in AllRuns : CallGenerateRPr(run)

\* how often token tok occurs in xml
Occurrences(xml, tok) == Cardinality({p \in 1..Len(xml) : xml[p] = tok})

\* C18: for every combination of the run flags generateRPr emits at most one
\* vertical-alignment element, and the superscript one when both superscript
\* and subscript are set.
C18_OneVertAlign ==
    rprRun # <<>> =>
        LET run == rprRun[1]
            sups == Occurrences(rprOut, VertAlignSuper)
            subs == Occurrences(rprOut, VertAlignSub)
        IN /\ sups + subs <= 1
           /\ sups + subs = 1 <=> (run.superscript \/ run.subscript)
           /\ (run.superscript /\ run.subscript) => sups = 1
           /\ sups = 1 <=> run.superscript

\* generateRPr was called on a run with both flags and further formatting
C18_Witness ==
    /\ rprRun # <<>>
    /\ rprRun[1].superscript /\ rprRun[1].subscript /\ rprRun[1].bold
    /\ Occurrences(rprOut, VertAlignSuper) = 1
    /\ Occurrences(rprOut, "<w:b/>") = 1

\* ---- generateRun, generateParagraph, generateTable, convertMdToDocx

MaxTokens == 2

\* escapeXml on a text
EscapeXml(text) ==
    CASE text = "<test> & \"quotes\"" -> "&lt;test&gt; &amp; \"quotes\""
      [] OTHER -> text

\* generateRun(text, rPr)
GenerateRun(text, rPr) ==
    <<"<w:r>">> \o rPr \o <<"<w:t xml:space=\"preserve\">", EscapeXml(text), "</w:t>", "</w:r>">>

BoldRun(text) == [PlainRun(text) EXCEPT !.bold = TRUE]
ItalicRun(text) == [PlainRun(text) EXCEPT !.italic = TRUE]

MdTableRow(header, cells) == [header |-> header, cells |-> cells]

\* The tokens a parsed document may hold.
MdTokens ==
    { [type |-> "paragraph", runs |-> <<PlainRun("Hello world")>>],
      [type |-> "paragraph", runs |-> <<BoldRun("<test> & \"quotes\"")>>],
      [type |-> "heading", level |-> 1, runs |-> <<PlainRun("Title")>>],
      [type |-> "list_item", ordered |-> FALSE, level |-> 1,
       runs |-> <<PlainRun("Item 1")>>],
      [type |-> "list_item", ordered |-> TRUE, level |-> 2,
       runs |-> <<PlainRun("Item 2")>>],
      [type |-> "blockquote", level |-> 1, runs |-> <<PlainRun("Quote text")>>],
      [type |-> "hr", runs |-> <<>>],
      [type |-> "table", runs |-> <<>>,
       rows |-> <<MdTableRow(TRUE, << <<PlainRun("Header 1")>>,
                                      <<BoldRun("Header 2"), ItalicRun("more")>> >>),
                  MdTableRow(FALSE, << <<PlainRun("Cell 1")>>,
                                       <<BoldRun("Cell 2")>> >>)>>] }

\* the runs of a paragraph
RunsXml(runs) ==
    Flatten([i \in 1..Len(runs) |-> GenerateRun(runs[i].text, GenerateRPr(runs[i]))])

Digit(n) == CASE n = 0 -> "0" [] n = 1 -> "1" [] n = 2 -> "2" [] OTHER -> "n"

\* the <w:pPr> of a token, '' for a plain paragraph
ParagraphProperties(token) ==
    CASE token.type = "heading" ->
            <<"<w:pPr>", "<w:pStyle w:val=\"Heading" \o Digit(token.level) \o "\"/>",
              "</w:pPr>">>
      [] token.type = "list_item" ->
            <<"<w:pPr>", "<w:numPr>",
              "<w:ilvl w:val=\"" \o Digit(token.level - 1) \o "\"/>",
              "<w:numId w:val=\"" \o (IF token.ordered THEN "2" ELSE "1") \o "\"/>",
              "</w:numPr>", "</w:pPr>">>
      [] token.type = "blockquote" ->
            <<"<w:pPr>", "<w:pStyle w:val=\"Quote\"/>", "<w:ind w:left=\"720\"/>",
              "</w:pPr>">>
      [] token.type = "hr" ->
            <<"<w:pPr>", "<w:pBdr>", "<w:bottom w:val=\"single\"/>", "</w:pBdr>",
              "</w:pPr>">>
      [] OTHER -> <<>>

\* state.hasList after generateParagraph(token, state)
HasListAfter(token, state) ==
    state.hasList \/ token.type = "list_item"

\* generateParagraph(token, state): the XML and the state afterwards
GenerateParagraph(token, state) ==
    [xml |-> <<"<w:p>">> \o ParagraphProperties(token) \o RunsXml(token.runs)
                \o <<"</w:p>">>,
     state |-> [state EXCEPT !.hasList = HasListAfter(token, state)]]

\* the run properties of a header-cell run, a bold marker put in front of the
\* run's own elements
HeaderRPrPrepended(run) ==
    <<"<w:rPr>", "<w:b/>">> \o RPrElements(run) \o <<"</w:rPr>">>

\* the run properties of a header-cell run: the run rendered as bold
HeaderRPr(run) == GenerateRPr([run EXCEPT !.bold = TRUE])

CellXml(runs, header) ==
    <<"<w:tc>", "<w:p>">>
       \o Flatten([i \in 1..Len(runs) |->
              GenerateRun(runs[i].text,
                          IF header THEN HeaderRPr(runs[i]) ELSE GenerateRPr(runs[i]))])
       \o <<"</w:p>", "</w:tc>">>

RowXml(row) ==
    <<"<w:tr>">>
       \o Flatten([c \in 1..Len(row.cells) |-> CellXml(row.cells[c], row.header)])
       \o <<"</w:tr>">>

\* generateTable(token, state)
GenerateTable(token, state) ==
    [xml |-> <<"<w:tbl>", "<w:tblPr>", "<w:tblBorders>", "</w:tblBorders>", "</w:tblPr>">>
                \o Flatten([r \in 1..Len(token.rows) |-> RowXml(token.rows[r])])
                \o <<"</w:tbl>">>,
     state |-> state]

\* the parts of the package, numbering.xml in every package
ZipPartsAlwaysNumbering(state) ==
    {"[Content_Types].xml", "_rels/.rels", "word/document.xml", "word/styles.xml",
     "word/numbering.xml"}

\* the parts of the package built from the final state
ZipParts(state) ==
    {"[Content_Types].xml", "_rels/.rels", "word/document.xml", "word/styles.xml"}
       \cup (IF state.hasList THEN {"word/numbering.xml"} ELSE {})

\* the parts [Content_Types].xml lists as overrides
ContentTypeOverrides(parts) == parts \ {"[Content_Types].xml", "_rels/.rels"}

\* convertMdToDocx renders the next token of the document
RenderParagraphToken(token) ==
    /\ gstatus = "converting" /\ Len(gbody) < MaxTokens
    /\ token.type # "table"
    /\ LET r == GenerateParagraph(token, gstate)
       IN /\ gbody' = Append(gbody, [token |-> token, xml |-> r.xml])
          /\ gstate' = r.state
    /\ UNCHANGED <<gzip, contentTypes, gstatus>>
    /\ UNCHANGED notGen

RenderTableToken(token) ==
    /\ gstatus = "converting" /\ Len(gbody) < MaxTokens
    /\ token.type = "table"
    /\ LET r == GenerateTable(token, gstate)
       IN /\ gbody' = Append(gbody, [token |-> token, xml |-> r.xml])
          /\ gstate' = r.state
    /\ UNCHANGED <<gzip, contentTypes, gstatus>>
    /\ UNCHANGED notGen

\* every token is rendered: the package is zipped
BuildPackage ==
    /\ gstatus = "converting"
    /\ gzip' = ZipParts(gstate)
    /\ contentTypes' = ContentTypeOverrides(ZipParts(gstate))
    /\ gstatus' = "packaged"
    /\ UNCHANGED <<gstate, gbody>>
    /\ UNCHANGED notGen

GenInit ==
    /\ gstate = [hasList |-> FALSE, hasComments |-> FALSE]
    /\ gbody = <<>>
    /\ gzip = {}
    /\ contentTypes = {}
    /\ gstatus = "converting"

GenNext ==
    \/ \E token \in MdTokens : RenderParagraphToken(token)
    \/ \E token \in MdTokens : RenderTableToken(token)
    \/ BuildPackage

RECURSIVE Segments(_, _, _, _, _)
\* the token sequences standing between an `open` and the next `close`
Segments(xml, open, close, cur, inside) ==
    IF xml = <<>> THEN <<>>
    ELSE IF ~inside
         THEN Segments(Tail(xml), open, close, <<>>, Head(xml) = open)
    ELSE IF Head(xml) = close
         THEN <<cur>> \o Segments(Tail(xml), open, close, <<>>, FALSE)
    ELSE Segments(Tail(xml), open, close, Append(cur, Head(xml)), TRUE)

\* the number of runs in the cells of a table row
RunCount(row) == Len(Flatten(row.cells))

\* C17: in generateTable every run of a header-row cell is rendered bold and
\* carries exactly one <w:b/>, whether or not the source run was bold.
C17_HeaderRunsBoldOnce ==
    \A n \in 1..Len(gbody) :
        gbody[n].token.type = "table" =>
            LET rows == gbody[n].token.rows
                trs == Segments(gbody[n].xml, "<w:tr>", "</w:tr>", <<>>, FALSE)
            IN /\ Len(trs) = Len(rows)
               /\ \A r \in 1..Len(rows) :
                     LET runs == Segments(trs[r], "<w:r>", "</w:r>", <<>>, FALSE)
                     IN /\ Len(runs) = RunCount(rows[r])
                        /\ rows[r].header =>
                              \A k \in 1..Len(runs) : Occurrences(runs[k], "<w:b/>") = 1

\* a table whose header row has a run without the bold flag and a run with it
C17_Witness ==
    \E n \in 1..Len(gbody) :
        /\ gbody[n].token.type = "table"
        /\ \E r \in 1..Len(gbody[n].token.rows) :
              LET runs == Flatten(gbody[n].token.rows[r].cells)
              IN /\ gbody[n].token.rows[r].header
                 /\ \E k \in 1..Len(runs) : runs[k].bold
                 /\ \E k \in 1..Len(runs) : ~runs[k].bold
        /\ Occurrences(gbody[n].xml, "<w:b/>") >= 3

\* at least one list item was rendered
ListRendered == \E n \in 1..Len(gbody) : gbody[n].token.type = "list_item"

\* C19: the package holds word/numbering.xml, with its content-type entry,
\* exactly when a list item was rendered, that is when generateParagraph set
\* state.hasList; no other kind of token changes hasList.
C19_NumberingIffList ==
    /\ gstate.hasList <=> ListRendered
    /\ gstatus = "packaged" =>
          /\ "word/numbering.xml" \in gzip <=> ListRendered
          /\ "word/numbering.xml" \in contentTypes <=> ListRendered

\* a package built from a document with a list item after another token
C19_Witness ==
    /\ gstatus = "packaged"
    /\ Len(gbody) = 2
    /\ ListRendered
    /\ gbody[1].token.type # "list_item"
    /\ "word/numbering.xml" \in gzip

(***************************************************************************)
(* LruCache (src/lsp/citekey-language.ts, as pinned by its tests)          *)
(*                                                                         *)
(* The cache is the sequence of its entries in the order of their last     *)
(* use, the least recently used entry first.                               *)
(***************************************************************************)

\* the maxSize values caches are built with, the keys and the values
LruSizes == {1, 2, 3}
LruKeys == {"k0", "k1", "k2", "new-key"}
LruValues == {"v0", "v1"}

\* the entries without the one stored under key
LruWithout(entries, key) == SelectSeq(entries, LAMBDA e : e.key # key)

LruHas(entries, key) == \E i \in 1..Len(entries) : entries[i].key = key

\* set evicting only once the cache is already over its capacity
LruSetEntriesLate(entries, maxSize, key, value) ==
    IF LruHas(entries, key)
    THEN Append(LruWithout(entries, key), [key |-> key, value |-> value])
    ELSE Append(IF Len(entries) > maxSize THEN Tail(entries) ELSE entries,
                [key |-> key, value |-> value])

\* cache.set(key, value): a known key moves to the most recent place with its
\* new value; a new key evicts the least recently used entry of a full cache
LruSetEntries(entries, maxSize, key, value) ==
    IF LruHas(entries, key)
    THEN Append(LruWithout(entries, key), [key |-> key, value |-> value])
    ELSE Append(IF Len(entries) >= maxSize THEN Tail(entries) ELSE entries,
                [key |-> key, value |-> value])

\* cache.get(key): the value, undefined for an unknown key
LruGetValue(entries, key) ==
    IF LruHas(entries, key)
    THEN (CHOOSE e \in Range(entries) : e.key = key).value
    ELSE Undefined

\* get leaving the order of the entries alone
LruGetEntriesNoTouch(entries, key) == entries

\* cache.get(key) makes the key the most recently used one
LruGetEntries(entries, key) ==
    IF LruHas(entries, key)
    THEN Append(LruWithout(entries, key),
                [key |-> key, value |-> LruGetValue(entries, key)])
    ELSE entries

\* new LruCache(maxSize)
NewLruCache(maxSize) ==
    /\ lruMax = 0
    /\ lruMax' = maxSize
    /\ lru' = <<>>
    /\ UNCHANGED <<lruInserted, lruGot, lruUses>>
    /\ UNCHANGED notLru

LruSet(key, value) ==
    /\ lruMax > 0
    /\ lru' = LruSetEntries(lru, lruMax, key, value)
    /\ lruInserted' = lruInserted \cup {key}
    /\ lruUses' = Append(LruWithout(lruUses, key), [key |-> key, use |-> "set"])
    /\ UNCHANGED <<lruMax, lruGot>>
    /\ UNCHANGED notLru

LruGet(key) ==
    /\ lruMax > 0
    /\ lruGot' = LruGetValue(lru, key)
    /\ lru' = LruGetEntries(lru, key)
    /\ lruUses' = IF LruHas(lru, key)
                  THEN Append(LruWithout(lruUses, key), [key |-> key, use |-> "get"])
                  ELSE lruUses
    /\ UNCHANGED <<lruMax, lruInserted>>
    /\ UNCHANGED notLru

LruInit ==
    /\ lruMax = 0
    /\ lru = <<>>
    /\ lruInserted = {}
    /\ lruGot = Undefined
    /\ lruUses = <<>>

LruNext ==
    \/ \E maxSize \in LruSizes : NewLruCache(maxSize)
    \/ \E key \in LruKeys, value \in LruValues : LruSet(key, value)
    \/ \E key \in LruKeys : LruGet(key)

\* C20: for a cache built with maxSize >= 1, size never exceeds maxSize after
\* any sequence of set operations, and equals maxSize once more than maxSize
\* distinct keys have been set.
C20_SizeBounded ==
    lruMax >= 1 =>
        /\ Len(lru) <= lruMax
        /\ Cardinality(lruInserted) > lruMax => Len(lru) = lruMax
        /\ Cardinality({lru[i].key : i \in 1..Len(lru)}) = Len(lru)

\* more distinct keys than maxSize were set in a cache of more than one entry
C20_Witness ==
    /\ lruMax >= 2
    /\ Cardinality(lruInserted) > lruMax
    /\ Len(lru) = lruMax

\* the keys held by the cache
LruKeysOf(entries) == {entries[i].key : i \in 1..Len(entries)}

\* the key in the cache whose last use (set or get) is the oldest
LeastRecentlyUsed ==
    LET held == SelectSeq(lruUses, LAMBDA u : LruHas(lru, u.key))
    IN  held[1].key

\* C21: when setting a new key overflows a full cache, exactly one entry is
\* evicted and it is the least recently used one, set and get both counting
\* as a use; no other step removes an entry.
C21_EvictsLeastRecentlyUsed ==
    [][\A key \in LruKeysOf(lru) \ LruKeysOf(lru') :
          /\ Len(lru) = lruMax
          /\ LruKeysOf(lru) \ LruKeysOf(lru') = {key}
          /\ LruKeysOf(lru') \ LruKeysOf(lru) \subseteq LruKeys \ LruKeysOf(lru)
          /\ Cardinality(LruKeysOf(lru') \ LruKeysOf(lru)) = 1
          /\ key = LeastRecentlyUsed]_vars

\* k0 was set first, read with get after the cache was filled, and survived
\* the insertion of new-key, which evicted k1
C21_Witness ==
    /\ lruMax = 2
    /\ lruUses = <<[key |-> "k1", use |-> "set"], [key |-> "k0", use |-> "get"],
                   [key |-> "new-key", use |-> "set"]>>
    /\ LruKeysOf(lru) = {"k0", "new-key"}

(***************************************************************************)
(* createDebouncer: one timer per document key                             *)
(*                                                                         *)
(* Time is counted in ms.  An armed timeout runs once its delay has        *)
(* elapsed; the clock does not pass a timeout that is due.  The handle of  *)
(* a timeout and the callback it was given are both named by the position  *)
(* of the schedule call in dlog.                                           *)
(***************************************************************************)

\* the delays debouncers are created with, the document keys, the schedule
\* calls made on one debouncer and the time the clock runs to
Delays == {1, 2}
DebKeys == {"doc:a", "doc:b"}
MaxSchedules == 3
MaxTime == 4

\* clearTimeout leaving the timeout armed
ClearTimeoutKeeps(armed, handle) == armed

\* clearTimeout(handle): the timeout will not run
ClearTimeout(armed, handle) == {t \in armed : t.handle # handle}

\* setTimeout never arming the timeout
SetTimeoutLost(armed, handle, key, now, delayMs) == armed

\* setTimeout(fn, delayMs) at time now
SetTimeout(armed, handle, key, now, delayMs) ==
    armed \cup {[handle |-> handle, key |-> key, due |-> now + delayMs]}

ScheduleCalls == SelectSeq(dlog, LAMBDA e : e.type = "schedule")

\* createDebouncer(delayMs)
CreateDebouncer(delayMs) ==
    /\ ddelay = 0
    /\ ddelay' = delayMs
    /\ timers' = [key \in DebKeys |-> <<>>]
    /\ UNCHANGED <<dnow, timeouts, dlog>>
    /\ UNCHANGED notDeb

\* schedule(key, callback)
Schedule(key) ==
    /\ ddelay > 0
    /\ Len(ScheduleCalls) < MaxSchedules
    /\ dnow + ddelay <= MaxTime
    /\ LET handle == Len(dlog) + 1
           existing == timers[key]
           cleared == IF existing # <<>> THEN ClearTimeout(timeouts, existing[1])
                      ELSE timeouts
       IN  /\ timeouts' = SetTimeout(cleared, handle, key, dnow, ddelay)
           /\ timers' = [timers EXCEPT ![key] = <<handle>>]
           /\ dlog' = Append(dlog, [type |-> "schedule", key |-> key,
                                    callback |-> handle, at |-> dnow])
    /\ UNCHANGED <<ddelay, dnow>>
    /\ UNCHANGED notDeb

\* the function handed to setTimeout for key runs: timers.delete(key); callback()
TimeoutRuns(key) ==
    /\ \E t \in timeouts :
          /\ t.key = key
          /\ t.due <= dnow
          /\ timeouts' = timeouts \ {t}
          /\ dlog' = Append(dlog, [type |-> "run", key |-> key,
                                   callback |-> t.handle, at |-> dnow])
    /\ timers' = [timers EXCEPT ![key] = <<>>]
    /\ UNCHANGED <<ddelay, dnow>>
    /\ UNCHANGED notDeb

\* clear()
DebClear ==
    /\ ddelay > 0
    /\ \E key \in DebKeys : timers[key] # <<>>
    /\ timeouts' = {t \in timeouts : \A key \in DebKeys : timers[key] # <<t.handle>>}
    /\ timers' = [key \in DebKeys |-> <<>>]
    /\ dlog' = Append(dlog, [type |-> "clear", key |-> "", callback |-> 0, at |-> dnow])
    /\ UNCHANGED <<ddelay, dnow>>
    /\ UNCHANGED notDeb

\* one ms passes; a timeout that is due runs first
Tick ==
    /\ dnow < MaxTime
    /\ \A t \in timeouts : t.due > dnow
    /\ dnow' = dnow + 1
    /\ UNCHANGED <<ddelay, timers, timeouts, dlog>>
    /\ UNCHANGED notDeb

DebInit ==
    /\ ddelay = 0
    /\ dnow = 0
    /\ timers = [key \in DebKeys |-> <<>>]
    /\ timeouts = {}
    /\ dlog = <<>>

DebNext ==
    \/ \E delayMs \in Delays : CreateDebouncer(delayMs)
    \/ \E key \in DebKeys : Schedule(key)
    \/ \E key \in DebKeys : TimeoutRuns(key)
    \/ DebClear
    \/ Tick

\* the schedule calls in dlog made since the last clear()
LastClear ==
    LET cs == {i \in 1..Len(dlog) : dlog[i].type = "clear"}
    IN  IF cs = {} THEN 0 ELSE CHOOSE i \in cs : \A j \in cs : j <= i

LiveSchedules ==
    {i \in (LastClear + 1)..Len(dlog) : dlog[i].type = "schedule"}

\* the executions of the callback given to schedule call i
RunsOf(i) == {r \in 1..Len(dlog) : dlog[r].type = "run" /\ dlog[r].callback = i}

\* the schedule calls made for the key of call i after it
LaterSchedules(i) ==
    {j \in (i + 1)..Len(dlog) : dlog[j].type = "schedule" /\ dlog[j].key = dlog[i].key}

\* C22: of the schedule calls made for one key within one debounce window
\* only the last one's callback runs, exactly once and once the delay has
\* elapsed since that call, whatever calls are made for other keys; a timer
\* is pending for a key exactly from a schedule call to the run it causes.
C22_WindowRunsLastCallbackOnce ==
    /\ \A i \in LiveSchedules :
          /\ Cardinality(RunsOf(i)) <= 1
          /\ (\E j \in LaterSchedules(i) : dlog[j].at - dlog[i].at < ddelay)
                => RunsOf(i) = {}
          /\ (/\ \A j \in LaterSchedules(i) : dlog[j].at - dlog[i].at > ddelay
              /\ dnow > dlog[i].at + ddelay)
                => Cardinality(RunsOf(i)) = 1
          /\ \A r \in RunsOf(i) :
                /\ r > i
                /\ dlog[r].key = dlog[i].key
                /\ dlog[r].at = dlog[i].at + ddelay
                /\ \A j \in LaterSchedules(i) : j > r
          /\ timers[dlog[i].key] = <<i>>
                <=> (RunsOf(i) = {} /\ LaterSchedules(i) = {})
    /\ \A key \in DebKeys :
          (\A i \in LiveSchedules : dlog[i].key # key) => timers[key] = <<>>

\* two calls for doc:a in one window with a call for doc:b between them: the
\* second call's callback ran, the first one's did not, nothing is pending
C22_Witness ==
    /\ Len(dlog) >= 4
    /\ dlog[1].type = "schedule" /\ dlog[1].key = "doc:a"
    /\ dlog[2].type = "schedule" /\ dlog[2].key = "doc:b"
    /\ dlog[3].type = "schedule" /\ dlog[3].key = "doc:a"
    /\ dlog[3].at - dlog[1].at < ddelay
    /\ RunsOf(1) = {}
    /\ Cardinality(RunsOf(3)) = 1
    /\ timers["doc:a"] = <<>>

\* schedule call i ran its callback, or was followed within the delay by
\* another call for its key, or by clear()
Settled(i) ==
    \/ Cardinality(RunsOf(i)) = 1
    \/ \E j \in LaterSchedules(i) : dlog[j].at - dlog[i].at <= ddelay
    \/ \E j \in (i + 1)..Len(dlog) : dlog[j].type = "clear"

\* C23: a schedule call not followed within the delay by another call for
\* its key eventually runs its callback exactly once; of two calls for one
\* key spaced further apart than the delay the first has run before the
\* second is made, and callbacks run in the order of their calls.
C23_SpacedCallsEachRun ==
    /\ [](\A i \in LiveSchedules :
            (/\ LaterSchedules(i) # {}
             /\ \A j \in LaterSchedules(i) : dlog[j].at - dlog[i].at > ddelay)
              => /\ Cardinality(RunsOf(i)) = 1
                 /\ \A r \in RunsOf(i) : \A j \in LaterSchedules(i) : r < j)
    /\ [](\A r1, r2 \in 1..Len(dlog) :
            (/\ dlog[r1].type = "run" /\ dlog[r2].type = "run"
             /\ dlog[r1].key = dlog[r2].key /\ r1 < r2)
              => dlog[r1].callback < dlog[r2].callback)
    /\ []<>(\A i \in 1..Len(dlog) : dlog[i].type = "schedule" => Settled(i))

\* two calls for one key further apart than the delay, both run
C23_Witness ==
    \E i, j \in LiveSchedules :
        /\ i < j
        /\ dlog[i].key = dlog[j].key
        /\ dlog[j].at - dlog[i].at > ddelay
        /\ Cardinality(RunsOf(i)) = 1
        /\ Cardinality(RunsOf(j)) = 1

(***************************************************************************)
(* createSelectionAwareDebouncer: the single word-count timer              *)
(***************************************************************************)

\* the selections arrays of the selection-change events: isEmpty of each
SelectionArrays == {<<TRUE>>, <<FALSE>>, <<TRUE, TRUE>>, <<TRUE, FALSE>>}
MaxChanges == 3

\* an update scheduled only when some selection is not empty
SchedulesUpdateNonEmpty(selections) ==
    \E i \in 1..Len(selections) : ~selections[i]

\* handleSelectionChange: scheduleUpdate always, even for empty selections
SchedulesUpdate(selections) == TRUE

SelectionChanges == SelectSeq(selLog, LAMBDA e : e.type = "change")

\* createSelectionAwareDebouncer(delayMs)
CreateSelectionAwareDebouncer(delayMs) ==
    /\ selDelay = 0
    /\ selDelay' = delayMs
    /\ selTimer' = <<>>
    /\ callCount' = 0
    /\ UNCHANGED <<selNow, selTimeouts, selLog>>
    /\ UNCHANGED notSel

\* handleSelectionChange(selections)
HandleSelectionChange(selections) ==
    /\ selDelay > 0
    /\ Len(SelectionChanges) < MaxChanges
    /\ selNow + selDelay <= MaxTime
    /\ LET handle == Len(selLog) + 1
           cleared == IF selTimer # <<>> THEN ClearTimeout(selTimeouts, selTimer[1])
                      ELSE selTimeouts
       IN  /\ IF SchedulesUpdate(selections)
              THEN /\ selTimeouts' = SetTimeout(cleared, handle, "", selNow, selDelay)
                   /\ selTimer' = <<handle>>
              ELSE UNCHANGED <<selTimeouts, selTimer>>
           /\ selLog' = Append(selLog, [type |-> "change", callback |-> handle, at |-> selNow,
                                        allEmpty |-> \A i \in 1..Len(selections) : selections[i]])
    /\ UNCHANGED <<selDelay, selNow, callCount>>
    /\ UNCHANGED notSel

\* the function handed to setTimeout runs: timer = undefined; callCount++
UpdateRuns ==
    /\ \E t \in selTimeouts :
          /\ t.due <= selNow
          /\ selTimeouts' = selTimeouts \ {t}
          /\ selLog' = Append(selLog, [type |-> "update", callback |-> t.handle,
                                       at |-> selNow, allEmpty |-> FALSE])
    /\ selTimer' = <<>>
    /\ callCount' = callCount + 1
    /\ UNCHANGED <<selDelay, selNow>>
    /\ UNCHANGED notSel

\* reset()
SelReset ==
    /\ selDelay > 0
    /\ callCount > 0 \/ selTimer # <<>>
    /\ callCount' = 0
    /\ selTimeouts' = IF selTimer # <<>> THEN ClearTimeout(selTimeouts, selTimer[1])
                      ELSE selTimeouts
    /\ selTimer' = <<>>
    /\ selLog' = Append(selLog, [type |-> "reset", callback |-> 0, at |-> selNow,
                                 allEmpty |-> FALSE])
    /\ UNCHANGED <<selDelay, selNow>>
    /\ UNCHANGED notSel

\* one ms passes; a timeout that is due runs first
SelTick ==
    /\ selNow < MaxTime
    /\ \A t \in selTimeouts : t.due > selNow
    /\ selNow' = selNow + 1
    /\ UNCHANGED <<selDelay, selTimer, selTimeouts, callCount, selLog>>
    /\ UNCHANGED notSel

SelInit ==
    /\ selDelay = 0
    /\ selNow = 0
    /\ selTimer = <<>>
    /\ selTimeouts = {}
    /\ callCount = 0
    /\ selLog = <<>>

SelNext ==
    \/ \E delayMs \in Delays : CreateSelectionAwareDebouncer(delayMs)
    \/ \E selections \in SelectionArrays : HandleSelectionChange(selections)
    \/ UpdateRuns
    \/ SelReset
    \/ SelTick

\* the selection changes in selLog made since the last reset()
LastReset ==
    LET rs == {i \in 1..Len(selLog) : selLog[i].type = "reset"}
    IN  IF rs = {} THEN 0 ELSE CHOOSE i \in rs : \A j \in rs : j <= i

LiveChanges == {i \in (LastReset + 1)..Len(selLog) : selLog[i].type = "change"}

UpdatesOf(i) == {r \in 1..Len(selLog) : selLog[r].type = "update" /\ selLog[r].callback = i}

LaterChanges(i) == {j \in (i + 1)..Len(selLog) : selLog[j].type = "change"}

DocUris == {"file:///a.md", "file:///b.md", "file:///doc.md"}
\* canonical bibliography paths; a document without bibliography passes undefined
BibPaths == {"/canonical/old.bib", "/canonical/new.bib"}

\* removeBibReverseMapEntry leaving every set as it is
RemoveEntryKeeps(map, docUri) == map

\* removeBibReverseMapEntry: uris.delete(docUri) on every set of the map
RemoveEntry(map, docUri) == [path \in DOMAIN map |-> map[path] \ {docUri}]

\* if (canonicalBibPath): undefined and the empty string are falsy
IsTruthyPath(canonicalBibPath) ==
    canonicalBibPath # Undefined /\ canonicalBibPath # ""

\* updateBibReverseMap: the map after the call
UpdatedMap(map, docUri, canonicalBibPath) ==
    LET removed == RemoveEntry(map, docUri)
        withKey == [path \in DOMAIN removed \cup {canonicalBibPath} |->
                      IF path \in DOMAIN removed THEN removed[path] ELSE {}]
    IN  IF IsTruthyPath(canonicalBibPath)
        THEN [withKey EXCEPT ![canonicalBibPath] = @ \cup {docUri}]
        ELSE removed

\* getMarkdownUrisForBib
GetMarkdownUrisForBib(map, canonicalBibPath) ==
    IF canonicalBibPath \in DOMAIN map THEN map[canonicalBibPath] ELSE {}

RemoveBibReverseMapEntry(docUri) ==
    /\ bibReverseMap' = RemoveEntry(bibReverseMap, docUri)
    /\ latestCall' = [latestCall EXCEPT ![docUri] = <<"remove">>]
    /\ UNCHANGED notBib

UpdateBibReverseMap(docUri, canonicalBibPath) ==
    /\ bibReverseMap' = UpdatedMap(bibReverseMap, docUri, canonicalBibPath)
    /\ latestCall' = [latestCall EXCEPT ![docUri] = <<"update", canonicalBibPath>>]
    /\ UNCHANGED notBib

\* beforeEach: bibReverseMap.clear()
BibInit ==
    /\ bibReverseMap = [path \in {} |-> {}]
    /\ latestCall = [docUri \in DocUris |-> <<>>]

BibNext ==
    \/ \E docUri \in DocUris : RemoveBibReverseMapEntry(docUri)
    \/ \E docUri \in DocUris, canonicalBibPath \in BibPaths \cup {Undefined} :
          UpdateBibReverseMap(docUri, canonicalBibPath)

\* the bibliographies whose set holds the document
BibsOf(docUri) ==
    {path \in BibPaths \cup DOMAIN bibReverseMap :
        docUri \in GetMarkdownUrisForBib(bibReverseMap, path)}

\* C25: each document URI is in at most one bibliography's set: the one named
\* in its latest update; in none if that update passed undefined, if it was
\* removed afterwards, or if no call was made for it.
C25_DocInLatestBibOnly ==
    \A docUri \in DocUris :
        /\ Cardinality(BibsOf(docUri)) <= 1
        /\ BibsOf(docUri) =
              IF Len(latestCall[docUri]) = 2 /\ latestCall[docUri][2] # Undefined
              THEN {latestCall[docUri][2]}
              ELSE {}

\* doc.md moved from old.bib to new.bib, a.md was removed, b.md was updated
\* with undefined: old.bib is still a key, with an empty set
C25_Witness ==
    /\ latestCall["file:///doc.md"] = <<"update", "/canonical/new.bib">>
    /\ latestCall["file:///a.md"] = <<"remove">>
    /\ latestCall["file:///b.md"] = <<"update", Undefined>>
    /\ "/canonical/old.bib" \in DOMAIN bibReverseMap
    /\ BibsOf("file:///doc.md") = {"/canonical/new.bib"}

(***************************************************************************)
(* computeCodeRegions: fenced code blocks and inline code spans            *)
(*                                                                         *)
(* Offsets count from 0, as in the source; a text is the sequence of its   *)
(* characters.                                                             *)
(***************************************************************************)

\* the backtick character U+0060
Backtick == "BT"

\* the lines texts are put together from, and how many of them
CodeLines ==
    { <<>>, <<Backtick>>, <<"a">>, <<Backtick, Backtick, Backtick>>, <<"~", "~", "~">>,
      <<Backtick, Backtick, Backtick, "a">>, <<Backtick, "a", Backtick>> }
MaxLines == 4

\* text[pos]
CharAt(text, pos) == text[pos + 1]

Region(start, end) == [start |-> start, end |-> end]

\* the length of the run of ch that starts at pos
RECURSIVE RunLength(_, _, _)
RunLength(text, pos, ch) ==
    IF pos < Len(text) /\ CharAt(text, pos) = ch
    THEN 1 + RunLength(text, pos + 1, ch)
    ELSE 0

\* the offset of the first newline at or after pos, text.length if none
RECURSIVE LineEnd(_, _)
LineEnd(text, pos) ==
    IF pos < Len(text) /\ CharAt(text, pos) # "\n"
    THEN LineEnd(text, pos + 1)
    ELSE pos

\* String.prototype.trim() === '' on text.slice(from, to)
IsBlank(text, from, to) ==
    \A pos \in from..(to - 1) : CharAt(text, pos) \in {" ", "\t", "\n"}

\* the offsets ^ matches at under the m flag
LineStarts(text) ==
    {0} \cup {pos \in 1..Len(text) : CharAt(text, pos - 1) = "\n"}

\* the matches of fenceRe (a line that starts with three or more backticks or
\* tildes, up to its end), in the order exec returns them: index, fence character, fence length, end of the match
FenceAt(text, pos) ==
    LET ch == IF pos < Len(text) THEN CharAt(text, pos) ELSE ""
    IN  [index |-> pos, char |-> ch, count |-> RunLength(text, pos, ch),
         end |-> LineEnd(text, pos)]

IsFenceLine(text, pos) ==
    /\ pos < Len(text)
    /\ CharAt(text, pos) \in {Backtick, "~"}
    /\ RunLength(text, pos, CharAt(text, pos)) >= 3

RECURSIVE FenceMatchesFrom(_, _)
FenceMatchesFrom(text, pos) ==
    IF pos > Len(text) THEN <<>>
    ELSE IF pos \in LineStarts(text) /\ IsFenceLine(text, pos)
         THEN <<FenceAt(text, pos)>> \o FenceMatchesFrom(text, LineEnd(text, pos) + 1)
         ELSE FenceMatchesFrom(text, pos + 1)

FenceMatches(text) == FenceMatchesFrom(text, 0)

\* the while loop over the fence matches: openFence is <<>> (null) or <<fence>>
RECURSIVE FencedLoop(_, _, _, _, _)
FencedLoop(text, matches, k, openFence, regions) ==
    IF k > Len(matches)
    THEN IF openFence # <<>>
         THEN Append(regions, Region(openFence[1].index, Len(text)))
         ELSE regions
    ELSE LET m == matches[k]
         IN  IF openFence = <<>>
             THEN FencedLoop(text, matches, k + 1, <<m>>, regions)
             ELSE IF /\ m.char = openFence[1].char
                     /\ m.count >= openFence[1].count
                     /\ IsBlank(text, m.index + m.count, m.end)
                  THEN FencedLoop(text, matches, k + 1, <<>>,
                                  Append(regions, Region(openFence[1].index, m.end)))
                  ELSE FencedLoop(text, matches, k + 1, openFence, regions)

FencedRegions(text) == FencedLoop(text, FenceMatches(text), 1, <<>>, <<>>)

\* findContainingRegion(pos): <<>> for null
RECURSIVE FindContainingFrom(_, _, _)
FindContainingFrom(regions, k, pos) ==
    IF k > Len(regions) THEN <<>>
    ELSE IF pos < regions[k].start THEN <<>>
    ELSE IF pos < regions[k].end THEN <<regions[k]>>
    ELSE FindContainingFrom(regions, k + 1, pos)

FindContainingRegion(regions, pos) == FindContainingFrom(regions, 1, pos)

\* the inner while loop: the offset after the closing backtick run of length
\* btCount found from j on, -1 if there is none
RECURSIVE FindClose(_, _, _, _)
FindClose(text, regions, j, btCount) ==
    IF j >= Len(text) THEN -1
    ELSE LET innerFence == FindContainingRegion(regions, j)
         IN  IF innerFence # <<>>
             THEN FindClose(text, regions, innerFence[1].end, btCount)
             ELSE IF CharAt(text, j) = Backtick
                  THEN LET closeCount == RunLength(text, j, Backtick)
                       IN  IF closeCount = btCount
                           THEN j + closeCount
                           ELSE FindClose(text, regions, j + closeCount, btCount)
                  ELSE FindClose(text, regions, j + 1, btCount)

\* the outer while loop of the inline code span scan
RECURSIVE InlineLoop(_, _, _)
InlineLoop(text, regions, i) ==
    IF i >= Len(text) THEN regions
    ELSE LET fence == FindContainingRegion(regions, i)
         IN  IF fence # <<>>
             THEN InlineLoop(text, regions, fence[1].end)
             ELSE IF CharAt(text, i) = Backtick
                  THEN LET btCount == RunLength(text, i, Backtick)
                           close == FindClose(text, regions, i + btCount, btCount)
                       IN  IF close # -1
                           THEN InlineLoop(text, Append(regions, Region(i, close)), close)
                           ELSE InlineLoop(text, regions, i + btCount)
                  ELSE InlineLoop(text, regions, i + 1)

\* regions.sort((a, b) => a.start - b.start): stable, by start offset
RECURSIVE SortByStart(_)
SortByStart(regions) ==
    IF regions = <<>> THEN <<>>
    ELSE LET rest == SortByStart(Tail(regions))
             first == Head(regions)
             before == SelectSeq(rest, LAMBDA r : r.start < first.start)
             after == SelectSeq(rest, LAMBDA r : r.start >= first.start)
         IN  before \o <<first>> \o after

ComputedCodeRegions(text) == SortByStart(InlineLoop(text, FencedRegions(text), 0))

\* one more line of text
TypeLine(line) ==
    /\ cstatus = "editing"
    /\ clines < MaxLines
    /\ ctext' = IF clines = 0 THEN line ELSE ctext \o <<"\n">> \o line
    /\ clines' = clines + 1
    /\ UNCHANGED <<cregions, cstatus>>
    /\ UNCHANGED notCode

\* computeCodeRegions(text)
ComputeCodeRegions ==
    /\ cstatus = "editing"
    /\ cregions' = ComputedCodeRegions(ctext)
    /\ cstatus' = "computed"
    /\ UNCHANGED <<ctext, clines>>
    /\ UNCHANGED notCode

CodeInit ==
    /\ ctext = <<>>
    /\ clines = 0
    /\ cregions = <<>>
    /\ cstatus = "editing"

CodeNext ==
    \/ \E line \in CodeLines : TypeLine(line)
    \/ ComputeCodeRegions

\* C26: the regions computeCodeRegions returns are sorted by start offset and
\* pairwise non-overlapping, fenced blocks and inline spans taken together.
C26_SortedNonOverlapping ==
    cstatus = "computed" =>
        \A k, l \in 1..Len(cregions) :
            k < l => /\ cregions[k].start <= cregions[l].start
                     /\ cregions[k].end <= cregions[l].start

(***************************************************************************)
(* getOutputBasePath (output-conflicts.ts)                                 *)
(***************************************************************************)

\* the pieces paths are put together from, and the longest path
PathPieces ==
    { <<"/">>, <<"a">>, <<".">>, <<"m", "d">>, <<".", "m", "d">>, <<".", "M", "D">> }
MaxPathLen == 7

\* case-insensitive comparison of one character
LowerCase(ch) == IF ch = "M" THEN "m" ELSE IF ch = "D" THEN "d" ELSE ch

\* path ends with .md, whatever the case of the letters
EndsWithMd(path) ==
    /\ Len(path) >= 3
    /\ path[Len(path) - 2] = "."
    /\ LowerCase(path[Len(path) - 1]) = "m"
    /\ LowerCase(path[Len(path)]) = "d"

\* getOutputBasePath(path): the path without its .md extension
GetOutputBasePath(path) ==
    IF EndsWithMd(path) THEN SubSeq(path, 1, Len(path) - 3) ELSE path

\* one more piece of the path
ChoosePath(piece) ==
    /\ ostatus = "choosing"
    /\ Len(opath) + Len(piece) <= MaxPathLen
    /\ opath' = opath \o piece
    /\ UNCHANGED <<once, twice, ostatus>>
    /\ UNCHANGED notOut

\* once = getOutputBasePath(path); twice = getOutputBasePath(once)
CallGetOutputBasePath ==
    /\ ostatus = "choosing"
    /\ once' = GetOutputBasePath(opath)
    /\ twice' = GetOutputBasePath(GetOutputBasePath(opath))
    /\ ostatus' = "called"
    /\ UNCHANGED opath
    /\ UNCHANGED notOut

OutInit ==
    /\ opath = <<>>
    /\ once = <<>>
    /\ twice = <<>>
    /\ ostatus = "choosing"

OutNext ==
    \/ \E piece \in PathPieces : ChoosePath(piece)
    \/ CallGetOutputBasePath

FmLines ==
    { <<"-", "-", "-">>,
      <<"c", "s", "l", ":", " ", "a", " ">>,
      <<"c", "s", "l", ":", " ", "\"", "a", "\"">>,
      <<"c", "s", "l", ":", "\"">>,
      <<"t", ":", " ", "a">> }
LineEndings == { <<"\n">>, <<"\r", "\n">> }
MaxFmLines == 4

\* text.slice(from, to) for 0 <= from, to <= text.length
Slice(text, from, to) == IF to > from THEN SubSeq(text, from + 1, to) ELSE <<>>

\* text has the characters of word at offset pos
HasAt(text, pos, word) ==
    /\ pos + Len(word) <= Len(text)
    /\ \A k \in 1..Len(word) : CharAt(text, pos + k - 1) = word[k]

\* the offsets where \r?\n--- matches
ClosesFrontmatter(text, pos) ==
    \/ HasAt(text, pos, <<"\n", "-", "-", "-">>)
    \/ HasAt(text, pos, <<"\r", "\n", "-", "-", "-">>)

\* FRONTMATTER_RE.exec(text): <<>> for null, else the match: where the body
\* (group 1) starts and ends and where the match ends
FrontmatterMatch(text) ==
    LET bodyStart == IF HasAt(text, 0, <<"-", "-", "-", "\n">>) THEN 4
                     ELSE IF HasAt(text, 0, <<"-", "-", "-", "\r", "\n">>) THEN 5
                     ELSE -1
        closes == {pos \in bodyStart..Len(text) : ClosesFrontmatter(text, pos)}
        bodyEnd == CHOOSE pos \in closes : \A other \in closes : pos <= other
    IN  IF bodyStart = -1 \/ closes = {} THEN <<>>
        ELSE <<[bodyStart |-> bodyStart, bodyEnd |-> bodyEnd,
                end |-> bodyEnd + (IF CharAt(text, bodyEnd) = "\r" THEN 5 ELSE 4)]>>

\* line.endsWith('\r') ? line.slice(0, -1) : line, as the end offset of the
\* trimmed line that starts at pos in text
TrimmedLineEnd(text, pos) ==
    LET lineEnd == LineEnd(text, pos)
    IN  IF lineEnd > pos /\ CharAt(text, lineEnd - 1) = "\r" THEN lineEnd - 1 ELSE lineEnd

\* trimmedLine.match(/^csl:[ \t]*/): the length of the match, -1 for null
CslMatch(text, pos) ==
    IF HasAt(Slice(text, 0, TrimmedLineEnd(text, pos)), pos, <<"c", "s", "l", ":">>)
    THEN LET blanks == {n \in 0..(TrimmedLineEnd(text, pos) - pos - 4) :
                          \A k \in 0..(n - 1) : CharAt(text, pos + 4 + k) \in {" ", "\t"}}
         IN  4 + CHOOSE n \in blanks : \A m \in blanks : m <= n
    ELSE -1

\* .replace(/^['"]/, '')
StripLeadingQuote(str) ==
    IF str # <<>> /\ Head(str) \in {"'", "\""} THEN Tail(str) ELSE str

Min(a, b) == IF a < b THEN a ELSE b

\* the for loop of getCslCompletionContext over the lines of head, from the
\* line that starts at pos on
RECURSIVE ContextLoop(_, _, _, _, _)
ContextLoop(text, head, offset, bodyStart, pos) ==
    IF pos > Len(head) THEN <<>>
    ELSE LET lineEnd == LineEnd(head, pos)
         IN  IF offset >= pos /\ offset <= lineEnd
             THEN IF CslMatch(head, pos) = -1 THEN <<>>
                  ELSE IF pos < bodyStart THEN <<>>
                  ELSE LET valueStart == pos + CslMatch(head, pos)
                           valueEnd == TrimmedLineEnd(head, pos)
                       IN  <<[prefix |-> StripLeadingQuote(
                                            Slice(text, valueStart, Min(offset, valueEnd))),
                              valueStart |-> valueStart, valueEnd |-> valueEnd]>>
             ELSE ContextLoop(text, head, offset, bodyStart, lineEnd + 1)

\* getCslCompletionContext(text, offset)
CslCompletionContext(text, offset) ==
    LET fmMatch == FrontmatterMatch(text)
    IN  IF fmMatch = <<>> THEN <<>>
        ELSE IF offset < 0 \/ offset > fmMatch[1].end THEN <<>>
        ELSE ContextLoop(text, Slice(text, 0, fmMatch[1].end), offset,
                         LineEnd(text, 0) + 1, 0)

\* String.prototype.trim()
RECURSIVE StrTrimLeft(_)
StrTrimLeft(str) ==
    IF str # <<>> /\ Head(str) \in {" ", "\t", "\r", "\n"} THEN StrTrimLeft(Tail(str)) ELSE str

RECURSIVE StrTrimRight(_)
StrTrimRight(str) ==
    IF str # <<>> /\ str[Len(str)] \in {" ", "\t", "\r", "\n"}
    THEN StrTrimRight(SubSeq(str, 1, Len(str) - 1))
    ELSE str

StrTrim(str) == StrTrimRight(StrTrimLeft(str))

\* rawValue is wrapped in a pair of double or of single quotes
IsQuoted(rawValue) ==
    /\ rawValue # <<>>
    /\ \/ Head(rawValue) = "\"" /\ rawValue[Len(rawValue)] = "\""
       \/ Head(rawValue) = "'" /\ rawValue[Len(rawValue)] = "'"

\* the for loop of getCslFieldInfo over the lines of fmBody, from the line
\* that starts at offset pos of text on
RECURSIVE FieldInfoLoop(_, _, _)
FieldInfoLoop(text, bodyEnd, pos) ==
    IF pos > bodyEnd THEN <<>>
    ELSE LET body == Slice(text, 0, bodyEnd)
             matched == CslMatch(body, pos)
             valueStart == pos + matched
             valueEnd == TrimmedLineEnd(body, pos)
             rawValue == Slice(text, valueStart, valueEnd)
         IN  IF matched # -1
             THEN IF IsQuoted(rawValue)
                  THEN <<[value |-> StrTrim(Slice(rawValue, 1, Len(rawValue) - 1)),
                          valueStart |-> valueStart + 1, valueEnd |-> valueEnd - 1]>>
                  ELSE <<[value |-> StrTrim(rawValue),
                          valueStart |-> valueStart, valueEnd |-> valueEnd]>>
             ELSE FieldInfoLoop(text, bodyEnd, LineEnd(body, pos) + 1)

\* getCslFieldInfo(text)
CslFieldInfo(text) ==
    LET fmMatch == FrontmatterMatch(text)
    IN  IF fmMatch = <<>> THEN <<>>
        ELSE FieldInfoLoop(text, fmMatch[1].bodyEnd, LineEnd(text, 0) + 1)

\* one more line of the document; the first one fixes its line ending
TypeFmLine(line, eol) ==
    /\ fstatus = "editing"
    /\ flines < MaxFmLines
    /\ flines > 0 => eol = feol
    /\ feol' = eol
    /\ ftext' = IF flines = 0 THEN line ELSE ftext \o eol \o line
    /\ flines' = flines + 1
    /\ UNCHANGED <<cslOffset, cslContext, cslInfo, fstatus>>
    /\ UNCHANGED notCsl

GetCslCompletionContext(offset) ==
    /\ fstatus = "editing"
    /\ offset <= Len(ftext)
    /\ cslOffset' = offset
    /\ cslContext' = CslCompletionContext(ftext, offset)
    /\ fstatus' = "context"
    /\ UNCHANGED <<ftext, flines, feol, cslInfo>>
    /\ UNCHANGED notCsl

GetCslFieldInfo ==
    /\ fstatus = "editing"
    /\ cslInfo' = CslFieldInfo(ftext)
    /\ fstatus' = "info"
    /\ UNCHANGED <<ftext, flines, feol, cslOffset, cslContext>>
    /\ UNCHANGED notCsl

CslInit ==
    /\ ftext = <<>>
    /\ flines = 0
    /\ feol = <<"\n">>
    /\ cslOffset = 0
    /\ cslContext = <<>>
    /\ cslInfo = <<>>
    /\ fstatus = "editing"

\* the longest document: MaxFmLines lines of 8 characters and their endings
CslOffsets == 0..(10 * MaxFmLines)

CslNext ==
    \/ \E line \in FmLines, eol \in LineEndings : TypeFmLine(line, eol)
    \/ \E offset \in CslOffsets : GetCslCompletionContext(offset)
    \/ GetCslFieldInfo

\* the offset where the line holding offset starts
LineStartOf(text, offset) ==
    CHOOSE pos \in LineStarts(text) :
        /\ pos <= offset
        /\ \A other \in LineStarts(text) : other <= offset => other <= pos

\* offset is a value position: inside the leading frontmatter, on a line of
\* its body that starts with csl:, after that key
IsCslValuePosition(text, offset) ==
    /\ FrontmatterMatch(text) # <<>>
    /\ LET fm == FrontmatterMatch(text)[1]
           pos == LineStartOf(text, offset)
       IN  /\ offset <= fm.end
           /\ pos >= fm.bodyStart
           /\ pos < fm.bodyEnd
           /\ HasAt(text, pos, <<"c", "s", "l", ":">>)
           /\ offset >= pos + 4

\* C28: getCslCompletionContext returns a context exactly for the offsets in
\* value position (inside the leading frontmatter, on a csl: line, after the
\* key) and undefined for every other offset.
C28_ContextIffValuePosition ==
    fstatus = "context" =>
        (cslContext # <<>> <=> IsCslValuePosition(ftext, cslOffset))

\* C30: whenever getCslFieldInfo returns a result,
\* 0 <= valueStart <= valueEnd <= text length and the text between the two,
\* trimmed, is the returned value.
C30_FieldRangeHoldsValue ==
    (fstatus = "info" /\ cslInfo # <<>>) =>
        /\ 0 <= cslInfo[1].valueStart
        /\ cslInfo[1].valueStart <= cslInfo[1].valueEnd
        /\ cslInfo[1].valueEnd <= Len(ftext)
        /\ StrTrim(Slice(ftext, cslInfo[1].valueStart, cslInfo[1].valueEnd))
              = cslInfo[1].value

(***************************************************************************)
(* Claims about the walker and the markdown builder                        *)
(***************************************************************************)

\* the m:oMath elements translated for a visited node
MathNodesOf(node) ==
    IF node.tag = "m:oMath" THEN <<node>>
    ELSE IF node.tag = "m:oMathPara" THEN ChildrenTagged(node.children, "m:oMath")
    ELSE <<>>

\* C6: a fault while translating one math node, inline or inside a display
\* container, is caught in walk() and yields exactly one fallback item for
\* that node; the items before and after it are emitted as without a fault.
C6_FaultYieldsOneFallback ==
    /\ wstatus # "failed"
    /\ \A i \in 1..Len(wdoc) :
          LET kids == MathNodesOf(wdoc[i])
              faulty == {k \in 1..Len(kids) : Throws(kids[k].children)}
              good == {k \in 1..Len(kids) :
                          /\ ~Throws(kids[k].children)
                          /\ OmmlToLatex(kids[k].children) # <<>>}
          IN /\ Cardinality({j \in 1..Len(emitted[i]) :
                   emitted[i][j].type = "math"
                      /\ emitted[i][j].latex = <<"\\text", "{", "[EQUATION ERROR]", "}">>})
                   = Cardinality(faulty)
             /\ Len(emitted[i]) = Cardinality(faulty) + Cardinality(good)

\* the rendered markdown as one token sequence (output.join(''))
Rendered == Flatten(markdown)

\* position p of the rendered markdown opens / closes a $$ block
OpensDisplay(p) ==
    /\ Rendered[p] = "$$"
    /\ Cardinality({q \in 1..(p - 1) : Rendered[q] = "$$"}) % 2 = 0
ClosesDisplay(p) ==
    /\ Rendered[p] = "$$"
    /\ Cardinality({q \in 1..(p - 1) : Rendered[q] = "$$"}) % 2 = 1

\* C9: every display-math item is rendered between $$ delimiters, with a
\* blank line before it and after it whenever other content is adjacent,
\* whatever the items around it are.
C9_DisplayMathBlankLines ==
    wstatus = "done" =>
        /\ Cardinality({p \in 1..Len(Rendered) : Rendered[p] = "$$"})
              = 2 * Cardinality({i \in 1..Len(content) :
                      content[i].type = "math" /\ content[i].display})
        /\ \A p \in 1..Len(Rendered) :
              /\ OpensDisplay(p) =>
                    \/ p = 1
                    \/ p > 2 /\ Rendered[p - 1] = "\n" /\ Rendered[p - 2] = "\n"
              /\ ClosesDisplay(p) =>
                    \/ p = Len(Rendered)
                    \/ /\ p + 2 <= Len(Rendered)
                       /\ Rendered[p + 1] = "\n" /\ Rendered[p + 2] = "\n"

\* the children of a display container that walk() translates before the
\* first child whose translation faults
ReachedChildren(kids) ==
    LET bad == {k \in 1..Len(kids) : Throws(kids[k].children)}
        stop == IF bad = {} THEN Len(kids) + 1
                ELSE CHOOSE k \in bad : \A j \in bad : k <= j
    IN SubSeq(kids, 1, stop - 1)

TranslatesToEmpty(kid) ==
    ~Throws(kid.children) /\ OmmlToLatex(kid.children) = <<>>

\* C11: a math container whose translation is the empty string produces no
\* content item, so no math item carries an empty LaTeX string and the
\* rendered markdown has no chunk that is an empty pair of math delimiters.
C11_EmptyMathDropped ==
    /\ \A i \in 1..Len(wdoc) :
          wdoc[i].tag \in {"m:oMath", "m:oMathPara"} =>
              LET kids == MathNodesOf(wdoc[i])
              IN /\ (\A k \in 1..Len(kids) : TranslatesToEmpty(kids[k]))
                       => emitted[i] = <<>>
                 /\ Len(emitted[i]) <= Cardinality({k \in 1..Len(kids) :
                                            ~TranslatesToEmpty(kids[k])})
    /\ \A j \in 1..Len(content) :
          content[j].type = "math" => content[j].latex # <<>>
    /\ \A j \in 1..Len(markdown) :
          /\ markdown[j] # <<"$", "$">>
          /\ markdown[j] # <<"$$", "\n", "\n", "$$">>

\* an inline container with an empty translation was walked between other
\* content and the document was rendered
C11_Witness ==
    /\ wstatus = "done"
    /\ \E i \in 1..Len(wdoc) :
          /\ wdoc[i].tag = "m:oMath"
          /\ TranslatesToEmpty(wdoc[i])
          /\ emitted[i] = <<>>
    /\ \E j \in 1..Len(content) : content[j].type = "math"
    /\ Len(markdown) > 0

\* a node of a paragraph's mixed inline content
IsInlinePiece(node) == node.tag \in {"w:r", "m:oMath", "w:instrText"}

\* what one inline piece must read in the markdown
PieceMarkup(node) ==
    CASE node.tag = "w:r" -> <<node.val>>
      [] node.tag = "m:oMath" ->
            IF Throws(node.children)
            THEN <<"$", "\\text", "{", "[EQUATION ERROR]", "}", "$">>
            ELSE IF OmmlToLatex(node.children) = <<>> THEN <<>>
            ELSE <<"$">> \o OmmlToLatex(node.children) \o <<"$">>
      [] node.tag = "w:instrText" ->
            RenderCitation([i \in 1..Len(node.val) |->
                               Cite(node.val[i].key, node.val[i].locator)])

\* the kind of content item an inline piece becomes
PieceType(node) ==
    CASE node.tag = "w:r" -> "text"
      [] node.tag = "m:oMath" -> "math"
      [] node.tag = "w:instrText" -> "citation"

\* C12: for a paragraph interleaving text runs, inline math and citations,
\* the content items and the rendered markdown hold every piece exactly once
\* and in document order.
C12_MixedContentInOrder ==
    (\A i \in 1..Len(wdoc) : IsInlinePiece(wdoc[i])) =>
        /\ \A i \in 1..Len(wdoc) :
              /\ Len(emitted[i]) = (IF PieceMarkup(wdoc[i]) = <<>> THEN 0 ELSE 1)
              /\ \A j \in 1..Len(emitted[i]) : emitted[i][j].type = PieceType(wdoc[i])
        /\ content = Flatten(emitted)
        /\ wstatus = "done" =>
              Rendered = Flatten([i \in 1..Len(wdoc) |-> PieceMarkup(wdoc[i])])

\* a rendered paragraph of three different pieces: text, inline math and a
\* citation
C12_Witness ==
    /\ wstatus = "done"
    /\ Len(wdoc) = 3
    /\ {wdoc[i].tag : i \in 1..Len(wdoc)} = {"w:r", "m:oMath", "w:instrText"}
    /\ Len(content) = 3
    /\ wdoc[1].tag # "w:r"

\* the LaTeX strings of a sequence of content items
Latexes(items) == [k \in 1..Len(items) |-> items[k].latex]

RECURSIVE ParseCitationItems(_)
\* the markdown parser reading the items of a bracketed citation group:
\* @key, an optional ", p. <locator>" suffix, then ";" or the closing bracket
ParseCitationItems(t) ==
    IF Len(t) < 2 \/ t[1] # "@" THEN <<>>
    ELSE LET hasLoc == Len(t) >= 4 /\ t[3] = ", p. "
             cite == Cite(t[2], IF hasLoc THEN t[4] ELSE Undefined)
             rest == SubSeq(t, IF hasLoc THEN 5 ELSE 3, Len(t))
         IN <<cite>> \o (IF rest # <<>> /\ rest[1] = "; "
                         THEN ParseCitationItems(Tail(rest)) ELSE <<>>)

ParseCitationGroup(t) ==
    IF t # <<>> /\ t[1] = "[" THEN ParseCitationItems(Tail(t)) ELSE <<>>

\* the markdown of the field code rendered for group g of call c
MarkupOfFieldCode(c, g) ==
    RenderCitation(ExtractCitationItems(out[c][g].fieldCode))

Init == CitInit /\ MathInit /\ WalkInit /\ ExtractInit /\ RPrInit
           /\ GenInit /\ LruInit /\ DebInit
           /\ SelInit /\ BibInit /\ CodeInit
           /\ OutInit /\ CslInit

Next == CitNext

Spec == Init /\ [][Next]_vars

\* math translation
NextMath == MathNext

SpecMath == Init /\ [][NextMath]_vars

\* docx -> markdown conversion of one document
NextWalk == WalkNext

SpecWalk == Init /\ [][NextWalk]_vars

\* citation extraction from one document.xml
NextExtract == ExtractNext

SpecExtract == Init /\ [][NextExtract]_vars

\* generateRPr on every run
NextRPr == RPrNext

SpecRPr == Init /\ [][NextRPr]_vars

\* markdown -> docx conversion of one document
NextGen == GenNext

SpecGen == Init /\ [][NextGen]_vars

\* one LruCache and the calls made on it
NextLru == LruNext

SpecLru == Init /\ [][NextLru]_vars

\* one debouncer, the calls made on it and the passing of time
NextDeb == DebNext

SpecDeb == Init /\ [][NextDeb]_vars

\* the event loop runs a timeout that is due, and time passes
SpecDebFair ==
    /\ Init /\ [][NextDeb]_vars
    /\ WF_vars(Tick)
    /\ WF_vars(\E key \in DebKeys : TimeoutRuns(key))

\* one selection-aware debouncer, the events it is given and the passing of time
NextSel == SelNext

SpecSel == Init /\ [][NextSel]_vars

\* the calls made on the bib reverse map
NextBib == BibNext

SpecBib == Init /\ [][NextBib]_vars

\* one text and the call of computeCodeRegions on it
NextCode == CodeNext

SpecCode == Init /\ [][NextCode]_vars

\* one path and the calls of getOutputBasePath on it
NextOut == OutNext

SpecOut == Init /\ [][NextOut]_vars

\* one document and the call of a csl frontmatter helper on it
NextCsl == CslNext

SpecCsl == Init /\ [][NextCsl]_vars

====
